---- MODULE Spec2Model ----
(***************************************************************************)
(* Model of the Android control server: the Device Command Channel         *)
(* (src/mcp/adb_client.py, class ADBClient) and the Command Dispatch        *)
(* Registry (src/mcp/server.py, list_tools / call_tool).                    *)
(*                                                                         *)
(* Text.  A Python str is modelled as a sequence of lexemes.  A lexeme is   *)
(* a TLA+ string standing for its own characters: punctuation, digits,      *)
(* white space and the generic letters are one-character lexemes; the       *)
(* words the parsers look for ("pkg", "versionCode", "mCurrentFocus", ...)  *)
(* are lexemes of their own.  The str of a text is the concatenation of     *)
(* its lexemes.  bytes are modelled the same way, with the extra lexeme     *)
(* BAD for a byte that is not valid UTF-8.                                  *)
(*                                                                         *)
(* Control.  A handler is modelled as a function of the results of the      *)
(* bridge invocations it has received so far (hist): it answers with the    *)
(* next invocation it issues, the value it returns, or the exception it     *)
(* raises.  The actions spawn the invocation, let the external process      *)
(* exit or time out, and deliver the handler's result.                      *)
(***************************************************************************)
EXTENDS Integers, Sequences, FiniteSets, TLC

VARIABLES
    device_serial,  \* ADBClient.device_serial
    pc,             \* "idle" | "running" | "waiting" | "done"
    call,           \* the call in progress or last made: its entry point
                    \* ("none" | "call_tool" | "ADBClient"), name and arguments
    hist,           \* results of the invocations of this call that completed
    trace,          \* command lines of the invocations this call has spawned
    procs,          \* each process of this call: "running", "exited", "killed", "failed"
    response,       \* outcome of the last call that finished
    pending,        \* requests the server has received and whose handler has not started
    log             \* what the handlers of the server did since the server was last
                    \* without a request: "begin", "invoke" (with its command line),
                    \* "over" (the invocation ended), "end" (the handler returned)

vars == <<device_serial, pc, call, hist, trace, procs, response, pending, log>>

-----------------------------------------------------------------------------
(* Python values *)

None == [t |-> "None"]
Bool(b) == [t |-> "bool", v |-> b]
Str(s) == [t |-> "str", v |-> s]
Bytes(s) == [t |-> "bytes", v |-> s]
List(s) == [t |-> "list", v |-> s]
Dict(f) == [t |-> "dict", v |-> f]
Tuple2(a, b) == [t |-> "tuple", v |-> <<a, b>>]

\* a variant of truthy that takes every value but None for true, as a test "is not
\* None" does: the statement C26 tells the two apart
truthy_unless_none(x) ==
    CASE x.t = "None" -> FALSE
      [] x.t = "bool" -> x.v
      [] OTHER -> TRUE

\* bool(x) of a Python value
truthy(x) ==
    CASE x.t = "None" -> FALSE
      [] x.t = "bool" -> x.v
      [] x.t = "dict" -> DOMAIN x.v # {}
      [] OTHER -> Len(x.v) > 0

\* a dict literal that is empty
EmptyDict == [k \in {} |-> <<>>]

\* d[key] = value
DictSet(d, key, value) == [k \in (DOMAIN d) \cup {key} |-> IF k = key THEN value ELSE d[k]]

-----------------------------------------------------------------------------
(* Python str operations on texts *)

BAD == "<0xff>"

Whitespace == {" ", "\n", "\t", "\r"}
Digits == {"0", "1", "2", "3", "4", "5", "6", "7", "8", "9"}

Range(s) == {s[i] : i \in 1..Len(s)}

\* one text per literal word: ["shell", "rm"] is Words(<<"shell", "rm">>)
Words(lits) == [i \in 1..Len(lits) |-> <<lits[i]>>]

\* bytes.decode("utf-8") succeeds
Decodable(b) == BAD \notin Range(b)

RECURSIVE lstrip(_)
lstrip(s) ==
    IF s # <<>> /\ Head(s) \in Whitespace THEN lstrip(Tail(s)) ELSE s

RECURSIVE rstrip(_)
rstrip(s) ==
    IF s # <<>> /\ s[Len(s)] \in Whitespace THEN rstrip(SubSeq(s, 1, Len(s) - 1)) ELSE s

strip(s) == rstrip(lstrip(s))

\* s.rstrip(chars)
RECURSIVE rstrip_chars(_, _)
rstrip_chars(s, chars) ==
    IF s # <<>> /\ s[Len(s)] \in chars
    THEN rstrip_chars(SubSeq(s, 1, Len(s) - 1), chars)
    ELSE s

\* least index >= i at which p occurs in s, 0 when there is none
RECURSIVE find(_, _, _)
find(s, p, i) ==
    IF i + Len(p) - 1 > Len(s) THEN 0
    ELSE IF SubSeq(s, i, i + Len(p) - 1) = p THEN i
    ELSE find(s, p, i + 1)

\* p in s
contains(s, p) == find(s, p, 1) # 0

startswith(s, p) == Len(p) <= Len(s) /\ SubSeq(s, 1, Len(p)) = p

\* s.split(p) for a separator p that cannot overlap itself, as the separators of the
\* source are: the texts between the occurrences of p, in order
split(s, p) ==
    LET occ == {i \in 1..(Len(s) - Len(p) + 1) : SubSeq(s, i, i + Len(p) - 1) = p}
        n == Cardinality(occ)
        at == [k \in 1..n |-> CHOOSE i \in occ : Cardinality({j \in occ : j < i}) = k - 1]
    IN  [k \in 1..(n + 1) |->
            SubSeq(s, IF k = 1 THEN 1 ELSE at[k - 1] + Len(p),
                      IF k = n + 1 THEN Len(s) ELSE at[k] - 1)]

\* index of the first white-space lexeme of s, Len(s) + 1 when there is none
RECURSIVE first_ws(_, _)
first_ws(s, i) ==
    IF i > Len(s) \/ s[i] \in Whitespace THEN i ELSE first_ws(s, i + 1)

\* s.split(): the maximal runs of non-white-space
RECURSIVE split_ws(_)
split_ws(s) ==
    LET t == lstrip(s)
    IN  IF t = <<>> THEN <<>>
        ELSE LET k == first_ws(t, 1)
             IN  <<SubSeq(t, 1, k - 1)>> \o split_ws(SubSeq(t, k, Len(t)))

\* s.replace(old, new) for a one-lexeme old
RECURSIVE replace(_, _, _)
replace(s, old, new) ==
    IF s = <<>> THEN <<>>
    ELSE (IF Head(s) = old THEN new ELSE <<Head(s)>>) \o replace(Tail(s), old, new)

\* " ".join(parts)
RECURSIVE join_sp(_)
join_sp(parts) ==
    IF parts = <<>> THEN <<>>
    ELSE IF Len(parts) = 1 THEN parts[1]
    ELSE parts[1] \o <<" ">> \o join_sp(Tail(parts))

\* s[n:] where n characters are whole lexemes of s
RECURSIVE drop_chars(_, _)
drop_chars(s, n) ==
    IF n <= 0 \/ s = <<>> THEN s ELSE drop_chars(Tail(s), n - Len(Head(s)))

DigitVal(c) ==
    CASE c = "0" -> 0 [] c = "1" -> 1 [] c = "2" -> 2 [] c = "3" -> 3 [] c = "4" -> 4
      [] c = "5" -> 5 [] c = "6" -> 6 [] c = "7" -> 7 [] c = "8" -> 8 [] c = "9" -> 9

DigitChar(d) == <<"0", "1", "2", "3", "4", "5", "6", "7", "8", "9">>[d + 1]

\* str(n) of a natural number
RECURSIVE str_nat(_)
str_nat(n) == IF n < 10 THEN <<DigitChar(n)>> ELSE str_nat(n \div 10) \o <<DigitChar(n % 10)>>

\* str(n) of an int
str(n) == IF n < 0 THEN <<"-">> \o str_nat(-n) ELSE str_nat(n)

\* str(b) of a bool
str_bool(b) == IF b THEN <<"True">> ELSE <<"False">>

\* the digits of int(s): s without the surrounding white space and the sign
int_digits(s) ==
    LET t == strip(s)
    IN  IF t # <<>> /\ Head(t) \in {"-", "+"} THEN Tail(t) ELSE t

\* int(s) does not raise ValueError
int_ok(s) == int_digits(s) # <<>> /\ Range(int_digits(s)) \subseteq Digits

RECURSIVE nat_of(_)
nat_of(ds) ==
    IF ds = <<>> THEN 0 ELSE 10 * nat_of(SubSeq(ds, 1, Len(ds) - 1)) + DigitVal(ds[Len(ds)])

\* int(s), for int_ok(s)
int(s) ==
    LET t == strip(s)
    IN  IF Head(t) = "-" THEN 0 - nat_of(int_digits(s)) ELSE nat_of(int_digits(s))

\* Python's floor division by a positive number
floordiv(a, b) == a \div b

-----------------------------------------------------------------------------
(* What a handler does next, given the results it has received *)

IntV(n) == [t |-> "int", v |-> n]

\* str(x) / f"{x}" of a Python value
pystr(x) ==
    CASE x.t = "int" -> str(x.v)
      [] x.t = "bool" -> str_bool(x.v)
      [] x.t = "None" -> <<"None">>
      [] OTHER -> x.v

\* the handler issues the invocation cmd and waits for it, at most timeout seconds
Invoke(cmd, timeout) == [kind |-> "invoke", cmd |-> cmd, timeout |-> timeout]

\* the handler returns val, having consumed the first used results
Ret(val, used) == [kind |-> "ret", val |-> val, used |-> used]

\* the handler raises exc and nothing catches it
Raise(exc) == [kind |-> "raise", exc |-> exc]

\* s; then K(value of s, the results s has not consumed)
Bind(s, h, K(_, _)) ==
    IF s.kind = "ret"
    THEN LET k == K(s.val, SubSeq(h, s.used + 1, Len(h)))
         IN  IF k.kind = "ret" THEN [k EXCEPT !.used = @ + s.used] ELSE k
    ELSE s

\* the timeout _run_adb passes to subprocess.run
RunTimeout == 30

\* subprocess.run(cmd, capture_output=..., timeout=...) seen from its caller: the
\* process is spawned, and its result or the exception of the run comes back
subprocess_run(cmd, timeout, h) ==
    IF h = <<>> THEN Invoke(cmd, timeout)
    ELSE IF h[1].kind = "raise" THEN Raise(h[1].exc)
    ELSE Ret([code |-> h[1].code, stdout |-> h[1].stdout, stderr |-> h[1].stderr], 1)

\* a variant of _run_adb that runs the command once more when it exits with a status
\* other than 0: the statement C21 tells the two apart
_run_adb_retrying(args, h) ==
    LET cmd == <<<<"adb">>>>
               \o (IF truthy(device_serial) THEN <<<<"-s">>, device_serial.v>> ELSE <<>>)
               \o args
        s == subprocess_run(cmd, RunTimeout, h)
    IN  IF s.kind = "ret" /\ s.val.code # 0
        THEN IF Len(h) < 2 THEN Invoke(cmd, RunTimeout)
             ELSE IF h[2].kind = "raise" THEN Raise(h[2].exc)
             ELSE Ret([code |-> h[2].code, stdout |-> h[2].stdout, stderr |-> h[2].stderr], 2)
        ELSE s

_run_adb(args, h) ==
    LET cmd == <<<<"adb">>>>
               \o (IF truthy(device_serial) THEN <<<<"-s">>, device_serial.v>> ELSE <<>>)
               \o args
    IN  subprocess_run(cmd, RunTimeout, h)

-----------------------------------------------------------------------------
(* ADBClient: device information and basic input *)

RECURSIVE devices_of(_)
devices_of(lines) ==
    IF lines = <<>> THEN <<>>
    ELSE LET line == Head(lines)
             parts == split_ws(line)
         IN  (IF strip(line) # <<>> /\ Len(parts) >= 2
              THEN <<[serial |-> parts[1], state |-> parts[2]]>>
              ELSE <<>>) \o devices_of(Tail(lines))

\* a variant of get_devices that reads the header as a device too: the statement C10
\* tells the two apart
get_devices_with_header(h) ==
    Bind(_run_adb(Words(<<"devices">>), h), h, LAMBDA r, h1:
        IF r.code # 0 THEN Ret(List(<<>>), 0)
        ELSE IF ~Decodable(r.stdout) THEN Raise("UnicodeDecodeError")
        ELSE Ret(List(devices_of(split(strip(r.stdout), <<"\n">>))), 0))

get_devices(h) ==
    Bind(_run_adb(Words(<<"devices">>), h), h, LAMBDA r, h1:
        IF r.code # 0 THEN Ret(List(<<>>), 0)
        ELSE IF ~Decodable(r.stdout) THEN Raise("UnicodeDecodeError")
        ELSE Ret(List(devices_of(Tail(split(strip(r.stdout), <<"\n">>)))), 0))

\* a variant of info_getprop that records an empty value for a query that failed: the
\* statement C11 tells the two apart
info_getprop_keeps_key(info, key, prop, h) ==
    Bind(_run_adb(Words(<<"shell", "getprop", prop>>), h), h, LAMBDA r, h1:
        IF r.code # 0 THEN Ret(DictSet(info, key, <<>>), 0)
        ELSE IF ~Decodable(r.stdout) THEN Raise("UnicodeDecodeError")
        ELSE Ret(DictSet(info, key, strip(r.stdout)), 0))

\* code, stdout, _ = self._run_adb(args); if code == 0: info[key] = stdout.decode("utf-8").strip()
info_getprop(info, key, prop, h) ==
    Bind(_run_adb(Words(<<"shell", "getprop", prop>>), h), h, LAMBDA r, h1:
        IF r.code # 0 THEN Ret(info, 0)
        ELSE IF ~Decodable(r.stdout) THEN Raise("UnicodeDecodeError")
        ELSE Ret(DictSet(info, key, strip(r.stdout)), 0))

\* the "wm size" and "wm density" queries: the text after the last colon
info_wm(info, key, what, h) ==
    Bind(_run_adb(Words(<<"shell", "wm", what>>), h), h, LAMBDA r, h1:
        IF r.code # 0 THEN Ret(info, 0)
        ELSE IF ~Decodable(r.stdout) THEN Raise("UnicodeDecodeError")
        ELSE LET out == strip(r.stdout)
                 fields == split(out, <<":">>)
             IN  IF contains(out, <<":">>)
                 THEN Ret(DictSet(info, key, strip(fields[Len(fields)])), 0)
                 ELSE Ret(info, 0))

\* the i-th sub-query of get_device_info
info_query(i, info, h) ==
    CASE i = 1 -> info_getprop(info, "model", "ro.product.model", h)
      [] i = 2 -> info_getprop(info, "android_version", "ro.build.version.release", h)
      [] i = 3 -> info_getprop(info, "sdk_version", "ro.build.version.sdk", h)
      [] i = 4 -> info_wm(info, "screen_size", "size", h)
      [] i = 5 -> info_wm(info, "screen_density", "density", h)
      [] i = 6 -> info_getprop(info, "manufacturer", "ro.product.manufacturer", h)

RECURSIVE info_from(_, _, _)
info_from(i, info, h) ==
    IF i > 6 THEN Ret(Dict(info), 0)
    ELSE Bind(info_query(i, info, h), h, LAMBDA inf, h1: info_from(i + 1, inf, h1))

get_device_info(h) == info_from(1, EmptyDict, h)

\* a variant of screenshot that does not look at the captured bytes: the statement C9
\* tells the two apart
screenshot_unchecked(h) ==
    Bind(_run_adb(Words(<<"exec-out", "screencap", "-p">>), h), h, LAMBDA r, h1:
        IF r.code = 0 THEN Ret(Bytes(r.stdout), 0) ELSE Ret(None, 0))

screenshot(h) ==
    Bind(_run_adb(Words(<<"exec-out", "screencap", "-p">>), h), h, LAMBDA r, h1:
        IF r.code = 0 /\ Len(r.stdout) > 0 THEN Ret(Bytes(r.stdout), 0) ELSE Ret(None, 0))

\* the fixed on-device path of the UI dump
device_path_dump == <<"/sdcard/window_dump.xml">>

\* a variant of get_ui_hierarchy that reads the dump whatever the status of the dump
\* invocation: the statement C5 tells the two apart
get_ui_hierarchy_reads_anyway(h) ==
    Bind(_run_adb(Words(<<"shell", "uiautomator", "dump">>) \o <<device_path_dump>>, h), h,
      LAMBDA r1, h1:
        Bind(_run_adb(Words(<<"shell", "cat">>) \o <<device_path_dump>>, h1), h1,
          LAMBDA r2, h2:
            IF r1.code # 0 \/ r2.code # 0 THEN Ret(None, 0)
            ELSE Bind(_run_adb(Words(<<"shell", "rm">>) \o <<device_path_dump>>, h2), h2,
              LAMBDA r3, h3:
                IF ~Decodable(r2.stdout) THEN Raise("UnicodeDecodeError")
                ELSE Ret(Str(r2.stdout), 0))))

\* a variant of get_ui_hierarchy that gives up when the delete invocation fails: the
\* statement C6 tells the two apart
get_ui_hierarchy_checks_delete(h) ==
    Bind(_run_adb(Words(<<"shell", "uiautomator", "dump">>) \o <<device_path_dump>>, h), h,
      LAMBDA r1, h1:
        IF r1.code # 0 THEN Ret(None, 0)
        ELSE Bind(_run_adb(Words(<<"shell", "cat">>) \o <<device_path_dump>>, h1), h1,
          LAMBDA r2, h2:
            IF r2.code # 0 THEN Ret(None, 0)
            ELSE Bind(_run_adb(Words(<<"shell", "rm">>) \o <<device_path_dump>>, h2), h2,
              LAMBDA r3, h3:
                IF r3.code # 0 THEN Ret(None, 0)
                ELSE IF ~Decodable(r2.stdout) THEN Raise("UnicodeDecodeError")
                ELSE Ret(Str(r2.stdout), 0))))

get_ui_hierarchy(h) ==
    Bind(_run_adb(Words(<<"shell", "uiautomator", "dump">>) \o <<device_path_dump>>, h), h,
      LAMBDA r1, h1:
        IF r1.code # 0 THEN Ret(None, 0)
        ELSE Bind(_run_adb(Words(<<"shell", "cat">>) \o <<device_path_dump>>, h1), h1,
          LAMBDA r2, h2:
            IF r2.code # 0 THEN Ret(None, 0)
            ELSE Bind(_run_adb(Words(<<"shell", "rm">>) \o <<device_path_dump>>, h2), h2,
              LAMBDA r3, h3:
                IF ~Decodable(r2.stdout) THEN Raise("UnicodeDecodeError")
                ELSE Ret(Str(r2.stdout), 0))))

tap(x, y, h) ==
    Bind(_run_adb(Words(<<"shell", "input", "tap">>) \o <<pystr(x), pystr(y)>>, h), h,
         LAMBDA r, h1: Ret(Bool(r.code = 0), 0))

swipe(x1, y1, x2, y2, duration_ms, h) ==
    Bind(_run_adb(Words(<<"shell", "input", "swipe">>)
                  \o <<pystr(x1), pystr(y1), pystr(x2), pystr(y2), pystr(duration_ms)>>, h), h,
         LAMBDA r, h1: Ret(Bool(r.code = 0), 0))

\* a variant of input_text that passes the text as it is: the statement C13 tells the
\* two apart
input_text_unescaped(text, h) ==
    Bind(_run_adb(Words(<<"shell", "input", "text">>) \o <<text.v>>, h), h,
         LAMBDA r, h1: Ret(Bool(r.code = 0), 0))

input_text(text, h) ==
    LET escaped_text == replace(text.v, " ", <<"%", "s">>)
    IN  Bind(_run_adb(Words(<<"shell", "input", "text">>) \o <<escaped_text>>, h), h,
             LAMBDA r, h1: Ret(Bool(r.code = 0), 0))

press_key(keycode, h) ==
    Bind(_run_adb(Words(<<"shell", "input", "keyevent">>) \o <<keycode.v>>, h), h,
         LAMBDA r, h1: Ret(Bool(r.code = 0), 0))

start_app(package_name, activity, h) ==
    IF truthy(activity)
    THEN LET component == package_name.v \o <<"/">> \o activity.v
         IN  Bind(_run_adb(Words(<<"shell", "am", "start", "-n">>) \o <<component>>, h), h,
                  LAMBDA r, h1: Ret(Bool(r.code = 0), 0))
    ELSE Bind(_run_adb(Words(<<"shell", "monkey", "-p">>) \o <<package_name.v>>
                       \o Words(<<"-c", "android.intent.category.LAUNCHER", "1">>), h), h,
              LAMBDA r, h1: Ret(Bool(r.code = 0), 0))

\* the package/activity of the first token of parts that has both "/" and "."
RECURSIVE app_of_parts(_)
app_of_parts(parts) ==
    IF parts = <<>> THEN None
    ELSE LET part == Head(parts)
             app_parts == split(rstrip_chars(part, {"}"}), <<"/">>)
         IN  IF contains(part, <<"/">>) /\ contains(part, <<".">>) /\ Len(app_parts) >= 2
             THEN Dict([package |-> app_parts[1], activity |-> app_parts[2]])
             ELSE app_of_parts(Tail(parts))

\* a variant of app_of_lines where a later line that parses wins: the statement C16
\* tells the two apart
RECURSIVE app_of_lines_last(_)
app_of_lines_last(lines) ==
    IF lines = <<>> THEN None
    ELSE LET line == Head(lines)
             found == IF (contains(line, <<"mCurrentFocus">>) \/ contains(line, <<"mFocusedApp">>))
                         /\ contains(line, <<"/">>)
                      THEN app_of_parts(split_ws(line))
                      ELSE None
             later == app_of_lines_last(Tail(lines))
         IN  IF later # None THEN later ELSE found

RECURSIVE app_of_lines(_)
app_of_lines(lines) ==
    IF lines = <<>> THEN None
    ELSE LET line == Head(lines)
             found == IF (contains(line, <<"mCurrentFocus">>) \/ contains(line, <<"mFocusedApp">>))
                         /\ contains(line, <<"/">>)
                      THEN app_of_parts(split_ws(line))
                      ELSE None
         IN  IF found # None THEN found ELSE app_of_lines(Tail(lines))

get_current_app(h) ==
    Bind(_run_adb(Words(<<"shell", "dumpsys", "window", "windows">>), h), h, LAMBDA r, h1:
        IF r.code # 0 THEN Ret(None, 0)
        ELSE IF ~Decodable(r.stdout) THEN Raise("UnicodeDecodeError")
        ELSE Ret(app_of_lines(split(r.stdout, <<"\n">>)), 0))

-----------------------------------------------------------------------------
(* ADBClient: app management, files, clipboard *)

stop_app(package_name, h) ==
    Bind(_run_adb(Words(<<"shell", "am", "force-stop">>) \o <<package_name.v>>, h), h,
         LAMBDA r, h1: Ret(Bool(r.code = 0), 0))

clear_app_data(package_name, h) ==
    Bind(_run_adb(Words(<<"shell", "pm", "clear">>) \o <<package_name.v>>, h), h,
         LAMBDA r, h1: Ret(Bool(r.code = 0), 0))

install_apk(apk_path, replace_flag, h) ==
    LET args == Words(<<"install">>)
                \o (IF truthy(replace_flag) THEN Words(<<"-r">>) ELSE <<>>)
                \o <<apk_path.v>>
    IN  Bind(_run_adb(args, h), h, LAMBDA r, h1:
            IF ~Decodable(r.stdout) \/ ~Decodable(r.stderr) THEN Raise("UnicodeDecodeError")
            ELSE Ret(Tuple2(Bool(r.code = 0), Str(strip(r.stdout \o r.stderr))), 0))

uninstall_app(package_name, h) ==
    Bind(_run_adb(Words(<<"uninstall">>) \o <<package_name.v>>, h), h,
         LAMBDA r, h1: Ret(Bool(r.code = 0), 0))

RECURSIVE packages_of(_)
packages_of(lines) ==
    IF lines = <<>> THEN <<>>
    ELSE (IF startswith(Head(lines), <<"package", ":">>)
          THEN <<drop_chars(Head(lines), 8)>>
          ELSE <<>>) \o packages_of(Tail(lines))

list_packages(filter_type, h) ==
    LET args == Words(<<"shell", "pm", "list", "packages">>)
                \o (CASE filter_type.v = <<"system">> -> Words(<<"-s">>)
                      [] filter_type.v = <<"third_party">> -> Words(<<"-3">>)
                      [] filter_type.v = <<"enabled">> -> Words(<<"-e">>)
                      [] filter_type.v = <<"disabled">> -> Words(<<"-d">>)
                      [] OTHER -> <<>>)
    IN  Bind(_run_adb(args, h), h, LAMBDA r, h1:
            IF r.code # 0 THEN Ret(List(<<>>), 0)
            ELSE IF ~Decodable(r.stdout) THEN Raise("UnicodeDecodeError")
            ELSE Ret(List(packages_of(split(strip(r.stdout), <<"\n">>))), 0))

\* the loop of get_app_info over the lines not yet read
RECURSIVE app_info_of(_, _)
app_info_of(lines, info) ==
    IF lines = <<>> THEN Ret(Dict(info), 0)
    ELSE LET line == strip(Head(lines))
             value == split(line, <<"=">>)[2]
         IN  IF startswith(line, <<"versionName", "=">>)
             THEN app_info_of(Tail(lines), DictSet(info, "version_name", value))
             ELSE IF startswith(line, <<"versionCode", "=">>)
             THEN IF split_ws(value) = <<>> THEN Raise("IndexError")
                  ELSE app_info_of(Tail(lines), DictSet(info, "version_code", split_ws(value)[1]))
             ELSE IF startswith(line, <<"firstInstallTime", "=">>)
             THEN app_info_of(Tail(lines), DictSet(info, "first_install", value))
             ELSE IF startswith(line, <<"lastUpdateTime", "=">>)
             THEN app_info_of(Tail(lines), DictSet(info, "last_update", value))
             ELSE app_info_of(Tail(lines), info)

get_app_info(package_name, h) ==
    Bind(_run_adb(Words(<<"shell", "dumpsys", "package">>) \o <<package_name.v>>, h), h,
      LAMBDA r, h1:
        IF r.code # 0 THEN Ret(None, 0)
        ELSE IF ~Decodable(r.stdout) THEN Raise("UnicodeDecodeError")
        ELSE app_info_of(split(r.stdout, <<"\n">>), [package |-> package_name.v]))

push_file(local_path, device_path, h) ==
    Bind(_run_adb(Words(<<"push">>) \o <<local_path.v, device_path.v>>, h), h,
         LAMBDA r, h1: Ret(Bool(r.code = 0), 0))

pull_file(device_path, local_path, h) ==
    Bind(_run_adb(Words(<<"pull">>) \o <<device_path.v, local_path.v>>, h), h,
         LAMBDA r, h1: Ret(Bool(r.code = 0), 0))

RECURSIVE files_of(_)
files_of(lines) ==
    IF lines = <<>> THEN <<>>
    ELSE LET parts == split_ws(Head(lines))
         IN  (IF Len(parts) >= 8
              THEN <<[permissions |-> parts[1],
                      size |-> parts[5],
                      date |-> parts[6] \o <<" ">> \o parts[7],
                      name |-> join_sp(SubSeq(parts, 8, Len(parts))),
                      is_dir |-> startswith(parts[1], <<"d">>)]>>
              ELSE <<>>) \o files_of(Tail(lines))

list_files(path, h) ==
    Bind(_run_adb(Words(<<"shell", "ls", "-la">>) \o <<path.v>>, h), h, LAMBDA r, h1:
        IF r.code # 0 THEN Ret(List(<<>>), 0)
        ELSE IF ~Decodable(r.stdout) THEN Raise("UnicodeDecodeError")
        ELSE Ret(List(files_of(split(strip(r.stdout), <<"\n">>))), 0))

file_exists(device_path, h) ==
    Bind(_run_adb(Words(<<"shell", "test", "-e">>) \o <<device_path.v>>
                  \o Words(<<"&&", "echo", "1">>), h), h,
         LAMBDA r, h1: Ret(Bool(r.code = 0), 0))

delete_file(device_path, h) ==
    Bind(_run_adb(Words(<<"shell", "rm", "-f">>) \o <<device_path.v>>, h), h,
         LAMBDA r, h1: Ret(Bool(r.code = 0), 0))

read_file(device_path, h) ==
    Bind(_run_adb(Words(<<"shell", "cat">>) \o <<device_path.v>>, h), h, LAMBDA r, h1:
        IF r.code # 0 THEN Ret(None, 0)
        ELSE IF ~Decodable(r.stdout) THEN Raise("UnicodeDecodeError")
        ELSE Ret(Str(r.stdout), 0))

set_clipboard(text, h) ==
    LET escaped == replace(text.v, "'", <<"'", "\\", "'", "'">>)
    IN  Bind(_run_adb(Words(<<"shell", "am", "broadcast", "-a", "clipper.set", "-e", "text">>)
                      \o <<(<<"'">> \o escaped \o <<"'">>)>>, h), h,
             LAMBDA r, h1: Ret(Bool(r.code = 0), 0))

get_clipboard(h) ==
    Bind(_run_adb(Words(<<"shell", "am", "broadcast", "-a", "clipper.get">>), h), h,
      LAMBDA r, h1:
        IF r.code # 0 THEN Ret(None, 0)
        ELSE IF ~Decodable(r.stdout) THEN Raise("UnicodeDecodeError")
        ELSE Ret(Str(strip(r.stdout)), 0))

-----------------------------------------------------------------------------
(* ADBClient: notifications and system information *)

\* the cap of get_notifications
MaxNotifications == 20

\* the cap of get_running_processes
MaxProcesses == 50

\* the parts of a marker line: the last part that starts with pkg= names the package
RECURSIVE notif_pkg(_, _)
notif_pkg(parts, notif) ==
    IF parts = <<>> THEN notif
    ELSE notif_pkg(Tail(parts),
                   IF startswith(Head(parts), <<"pkg", "=">>)
                   THEN DictSet(notif, "package", drop_chars(Head(parts), 4))
                   ELSE notif)

\* a variant of notif_step that appends the record under construction at every marker
\* line, empty or not: the statement C24 tells the two apart
notif_step_flushing(st, line) ==
    LET title == split(line, <<"android.title", "=">>)
        text == split(line, <<"android.text", "=">>)
    IN  IF contains(line, <<"pkg", "=">>)
        THEN [notifications |-> Append(st.notifications, st.current_notif),
              current_notif |-> notif_pkg(split_ws(line), EmptyDict)]
        ELSE IF contains(line, <<"android.title", "=">>)
        THEN [st EXCEPT !.current_notif = DictSet(@, "title", strip(title[Len(title)]))]
        ELSE IF contains(line, <<"android.text", "=">>)
        THEN [st EXCEPT !.current_notif = DictSet(@, "text", strip(text[Len(text)]))]
        ELSE st

\* the body of the loop of get_notifications: the lists after the line is read
notif_step(st, line) ==
    LET title == split(line, <<"android.title", "=">>)
        text == split(line, <<"android.text", "=">>)
    IN  IF contains(line, <<"pkg", "=">>)
        THEN [notifications |-> IF DOMAIN st.current_notif # {}
                                THEN Append(st.notifications, st.current_notif)
                                ELSE st.notifications,
              current_notif |-> notif_pkg(split_ws(line), EmptyDict)]
        ELSE IF contains(line, <<"android.title", "=">>)
        THEN [st EXCEPT !.current_notif = DictSet(@, "title", strip(title[Len(title)]))]
        ELSE IF contains(line, <<"android.text", "=">>)
        THEN [st EXCEPT !.current_notif = DictSet(@, "text", strip(text[Len(text)]))]
        ELSE st

\* the loop of get_notifications over lines, from the lists st: the first half of the
\* lines, and once these are read the second
RECURSIVE notifs_loop(_, _)
notifs_loop(lines, st) ==
    IF lines = <<>> THEN st
    ELSE IF Len(lines) = 1 THEN notif_step(st, lines[1])
    ELSE LET m == Len(lines) \div 2
             mid == notifs_loop(SubSeq(lines, 1, m), st)
         IN  IF DOMAIN mid # {} THEN notifs_loop(SubSeq(lines, m + 1, Len(lines)), mid)
             ELSE mid

\* the loop of get_notifications over the lines, and the append after it
notifs_of(lines, notifications, current_notif) ==
    LET st == notifs_loop(lines, [notifications |-> notifications,
                                  current_notif |-> current_notif])
    IN  IF DOMAIN st.current_notif # {} THEN Append(st.notifications, st.current_notif)
        ELSE st.notifications

\* a variant of take that does not cut the list: the statement C12 tells the two apart
take_all(s, n) == s

\* s[:n] of a list
take(s, n) == SubSeq(s, 1, IF Len(s) < n THEN Len(s) ELSE n)

get_notifications(h) ==
    Bind(_run_adb(Words(<<"shell", "dumpsys", "notification", "--noredact">>), h), h,
      LAMBDA r, h1:
        IF r.code # 0 THEN Ret(List(<<>>), 0)
        ELSE IF ~Decodable(r.stdout) THEN Raise("UnicodeDecodeError")
        ELSE Ret(List(take(notifs_of(split(r.stdout, <<"\n">>), <<>>, EmptyDict),
                           MaxNotifications)), 0))

open_notification_panel(h) ==
    Bind(_run_adb(Words(<<"shell", "cmd", "statusbar", "expand-notifications">>), h), h,
         LAMBDA r, h1: Ret(Bool(r.code = 0), 0))

close_notification_panel(h) ==
    Bind(_run_adb(Words(<<"shell", "cmd", "statusbar", "collapse">>), h), h,
         LAMBDA r, h1: Ret(Bool(r.code = 0), 0))

\* s.lower(), for the letters of the texts the model reads
lower(s) ==
    [i \in 1..Len(s) |-> CASE s[i] = "A" -> "a" [] s[i] = "C" -> "c" [] OTHER -> s[i]]

RECURSIVE battery_of(_, _)
battery_of(lines, info) ==
    IF lines = <<>> THEN info
    ELSE LET line == strip(Head(lines))
             i == find(line, <<":">>, 1)
             key == replace(lower(strip(SubSeq(line, 1, i - 1))), " ", <<"_">>)
             value == strip(SubSeq(line, i + 1, Len(line)))
         IN  battery_of(Tail(lines), IF i # 0 THEN DictSet(info, key, value) ELSE info)

get_battery_info(h) ==
    Bind(_run_adb(Words(<<"shell", "dumpsys", "battery">>), h), h, LAMBDA r, h1:
        IF r.code # 0 THEN Ret(Dict(EmptyDict), 0)
        ELSE IF ~Decodable(r.stdout) THEN Raise("UnicodeDecodeError")
        ELSE Ret(Dict(battery_of(split(r.stdout, <<"\n">>), EmptyDict)), 0))

\* line.split(marker)[1].split(",")[0].strip()
wifi_field(line, marker) == strip(split(split(line, marker)[2], <<",">>)[1])

RECURSIVE wifi_of(_, _)
wifi_of(lines, info) ==
    IF lines = <<>> THEN info
    ELSE LET line == Head(lines)
             i1 == IF contains(line, <<"SSID", ":">>)
                   THEN DictSet(info, "ssid", wifi_field(line, <<"SSID", ":">>)) ELSE info
             i2 == IF contains(line, <<"RSSI", ":">>)
                   THEN DictSet(i1, "rssi", wifi_field(line, <<"RSSI", ":">>)) ELSE i1
             i3 == IF contains(line, <<"Link speed", ":">>)
                   THEN DictSet(i2, "link_speed", wifi_field(line, <<"Link speed", ":">>)) ELSE i2
         IN  wifi_of(Tail(lines), IF contains(line, <<"mWifiInfo">>) THEN i3 ELSE info)

get_wifi_info(h) ==
    Bind(_run_adb(Words(<<"shell", "dumpsys", "wifi">>), h), h, LAMBDA r, h1:
        IF r.code # 0 THEN Ret(Dict(EmptyDict), 0)
        ELSE IF ~Decodable(r.stdout) THEN Raise("UnicodeDecodeError")
        ELSE Ret(Dict(wifi_of(split(r.stdout, <<"\n">>), EmptyDict)), 0))

get_ip_address(h) ==
    Bind(_run_adb(Words(<<"shell", "ip", "route", "get", "1">>), h), h, LAMBDA r, h1:
        IF r.code # 0 THEN Ret(None, 0)
        ELSE IF ~Decodable(r.stdout) THEN Raise("UnicodeDecodeError")
        ELSE LET parts == split(r.stdout, <<"src">>)
             IN  IF contains(r.stdout, <<"src">>) /\ Len(parts) > 1
                 THEN IF split_ws(parts[2]) = <<>> THEN Raise("IndexError")
                      ELSE Ret(Str(split_ws(parts[2])[1]), 0)
                 ELSE Ret(None, 0))

RECURSIVE processes_of(_)
processes_of(lines) ==
    IF lines = <<>> THEN <<>>
    ELSE LET parts == split_ws(Head(lines))
         IN  (IF Len(parts) >= 9
              THEN <<[user |-> parts[1], pid |-> parts[2], name |-> parts[Len(parts)]]>>
              ELSE <<>>) \o processes_of(Tail(lines))

get_running_processes(h) ==
    Bind(_run_adb(Words(<<"shell", "ps", "-A">>), h), h, LAMBDA r, h1:
        IF r.code # 0 THEN Ret(List(<<>>), 0)
        ELSE IF ~Decodable(r.stdout) THEN Raise("UnicodeDecodeError")
        ELSE Ret(List(take(processes_of(Tail(split(strip(r.stdout), <<"\n">>))),
                           MaxProcesses)), 0))

-----------------------------------------------------------------------------
(* ADBClient: advanced input, media, shell *)

long_press(x, y, duration_ms, h) == swipe(x, y, x, y, duration_ms, h)

\* the two taps are 0.1 s apart
double_tap(x, y, h) == Bind(tap(x, y, h), h, LAMBDA first, h1: tap(x, y, h1))

\* a variant of pinch whose swipe for a pinch out runs on the other side of the
\* center: the statement C23 tells the two apart
pinch_mirrored(center_x, center_y, start_distance, end_distance, h) ==
    IF start_distance.v > end_distance.v
    THEN swipe(IntV(center_x.v - floordiv(start_distance.v, 2)), center_y,
               IntV(center_x.v - floordiv(end_distance.v, 2)), center_y, IntV(300), h)
    ELSE swipe(IntV(center_x.v + floordiv(start_distance.v, 2)), center_y,
               IntV(center_x.v + floordiv(end_distance.v, 2)), center_y, IntV(300), h)

pinch(center_x, center_y, start_distance, end_distance, h) ==
    IF start_distance.v > end_distance.v
    THEN swipe(IntV(center_x.v - floordiv(start_distance.v, 2)), center_y,
               IntV(center_x.v - floordiv(end_distance.v, 2)), center_y, IntV(300), h)
    ELSE swipe(IntV(center_x.v - floordiv(start_distance.v, 2)), center_y,
               IntV(center_x.v - floordiv(end_distance.v, 2)), center_y, IntV(300), h)

\* the x used when the screen size is not known
FallbackX == 540

\* the y every scroll starts from
CenterY == 1200

\* x when the caller gave none: half the width that get_device_info reports
scroll_x(x, h) ==
    IF x # None THEN Ret(x, 0)
    ELSE Bind(get_device_info(h), h, LAMBDA info, h1:
            IF "screen_size" \in DOMAIN info.v
            THEN LET width == split(info.v["screen_size"], <<"x">>)[1]
                 IN  IF int_ok(width) THEN Ret(IntV(floordiv(int(width), 2)), 0)
                     ELSE Raise("ValueError")
            ELSE Ret(IntV(FallbackX), 0))

scroll_up(x, distance, h) ==
    Bind(scroll_x(x, h), h, LAMBDA x1, h1:
        swipe(x1, IntV(CenterY), x1, IntV(CenterY + distance.v), IntV(300), h1))

scroll_down(x, distance, h) ==
    Bind(scroll_x(x, h), h, LAMBDA x1, h1:
        swipe(x1, IntV(CenterY), x1, IntV(CenterY - distance.v), IntV(300), h1))

take_photo(save_path, h) ==
    Bind(_run_adb(Words(<<"shell", "am", "start", "-a", "android.media.action.IMAGE_CAPTURE",
                          "--ez", "android.intent.extra.quickCapture", "true">>), h), h,
         LAMBDA r, h1: Ret(Bool(r.code = 0), 0))

screen_record(output_path, duration_seconds, h) ==
    Bind(_run_adb(Words(<<"shell", "screenrecord", "--time-limit">>)
                  \o <<pystr(duration_seconds), output_path.v>>, h), h,
         LAMBDA r, h1: Ret(Bool(r.code = 0), 0))

\* max(0, min(255, level))
\* a variant of clamp_brightness that bounds the level from above only: the statement
\* C29 tells the two apart
clamp_brightness_above(level) == IF level > 255 THEN 255 ELSE level

clamp_brightness(level) == IF level > 255 THEN 255 ELSE IF level < 0 THEN 0 ELSE level

set_brightness(level, h) ==
    Bind(_run_adb(Words(<<"shell", "settings", "put", "system", "screen_brightness">>)
                  \o <<str(clamp_brightness(level.v))>>, h), h,
         LAMBDA r, h1: Ret(Bool(r.code = 0), 0))

\* stream_map.get(stream, "3")
stream_id(stream) ==
    CASE stream.v = <<"music">> -> <<"3">>
      [] stream.v = <<"ring">> -> <<"2">>
      [] stream.v = <<"alarm">> -> <<"4">>
      [] stream.v = <<"notification">> -> <<"5">>
      [] OTHER -> <<"3">>

set_volume(stream, level, h) ==
    Bind(_run_adb(Words(<<"shell", "media", "volume", "--stream">>) \o <<stream_id(stream)>>
                  \o Words(<<"--set">>) \o <<pystr(level)>>, h), h,
         LAMBDA r, h1: Ret(Bool(r.code = 0), 0))

\* command.replace("'", "'\\''")
escape_quotes(command) == replace(command, "'", <<"'", "\\", "'", "'">>)

\* a variant of shell_command that wraps the command without escaping its quotes: the
\* statement C14 tells the two apart
shell_command_unescaped(command, as_root, h) ==
    LET full_cmd == <<"su", " ", "-c", " ", "'">> \o command.v \o <<"'">>
        args == IF truthy(as_root) THEN Words(<<"shell">>) \o <<full_cmd>>
                ELSE Words(<<"shell">>) \o <<command.v>>
    IN  Bind(_run_adb(args, h), h, LAMBDA r, h1:
            IF ~Decodable(r.stdout) \/ ~Decodable(r.stderr) THEN Raise("UnicodeDecodeError")
            ELSE Ret(Tuple2(Bool(r.code = 0), Str(strip(r.stdout \o r.stderr))), 0))

shell_command(command, as_root, h) ==
    LET full_cmd == <<"su", " ", "-c", " ", "'">> \o escape_quotes(command.v) \o <<"'">>
        args == IF truthy(as_root) THEN Words(<<"shell">>) \o <<full_cmd>>
                ELSE Words(<<"shell">>) \o <<command.v>>
    IN  Bind(_run_adb(args, h), h, LAMBDA r, h1:
            IF ~Decodable(r.stdout) \/ ~Decodable(r.stderr) THEN Raise("UnicodeDecodeError")
            ELSE Ret(Tuple2(Bool(r.code = 0), Str(strip(r.stdout \o r.stderr))), 0))

\* ord(c) of the one-character lexemes file contents are written with; "<e-acute>"
\* stands for the one character U+00E9
ord(c) ==
    CASE c = "a" -> 97 [] c = "b" -> 98 [] c = " " -> 32 [] c = "\n" -> 10
      [] c = "'" -> 39 [] c = "\"" -> 34 [] c = "\\" -> 92 [] c = "<e-acute>" -> 233

\* content.encode("utf-8") of a text of characters below U+0800: one byte for an ASCII
\* character, two bytes for any other
RECURSIVE encode_utf8(_)
encode_utf8(s) ==
    IF s = <<>> THEN <<>>
    ELSE LET cp == ord(s[1])
         IN  (IF cp < 128 THEN <<cp>> ELSE <<192 + (cp \div 64), 128 + (cp % 64)>>)
             \o encode_utf8(Tail(s))

B64Chars ==
    <<"A", "B", "C", "D", "E", "F", "G", "H", "I", "J", "K", "L", "M", "N", "O", "P",
      "Q", "R", "S", "T", "U", "V", "W", "X", "Y", "Z", "a", "b", "c", "d", "e", "f",
      "g", "h", "i", "j", "k", "l", "m", "n", "o", "p", "q", "r", "s", "t", "u", "v",
      "w", "x", "y", "z", "0", "1", "2", "3", "4", "5", "6", "7", "8", "9", "+", "/">>

\* base64.b64encode(bs).decode("utf-8") of a sequence of byte values
RECURSIVE b64encode(_)
b64encode(bs) ==
    IF bs = <<>> THEN <<>>
    ELSE IF Len(bs) = 1
    THEN <<B64Chars[bs[1] \div 4 + 1], B64Chars[(bs[1] % 4) * 16 + 1], "=", "=">>
    ELSE IF Len(bs) = 2
    THEN <<B64Chars[bs[1] \div 4 + 1],
           B64Chars[(bs[1] % 4) * 16 + bs[2] \div 16 + 1],
           B64Chars[(bs[2] % 16) * 4 + 1], "=">>
    ELSE <<B64Chars[bs[1] \div 4 + 1],
           B64Chars[(bs[1] % 4) * 16 + bs[2] \div 16 + 1],
           B64Chars[(bs[2] % 16) * 4 + bs[3] \div 64 + 1],
           B64Chars[(bs[3] % 64) + 1]>> \o b64encode(SubSeq(bs, 4, Len(bs)))

\* a variant of write_file that echoes the content itself: the statement C15 tells the
\* two apart
write_file_plain(device_path, content, as_root, h) ==
    LET cmd == <<"echo", " ", "'">> \o content.v
               \o <<"'", " ", "|", " ", "base64", " ", "-d", " ", ">", " ", "'">>
               \o device_path.v \o <<"'">>
    IN  Bind(shell_command(Str(cmd), as_root, h), h,
             LAMBDA res, h1: Ret(res.v[1], 0))

write_file(device_path, content, as_root, h) ==
    LET b64_content == b64encode(encode_utf8(content.v))
        cmd == <<"echo", " ", "'">> \o b64_content
               \o <<"'", " ", "|", " ", "base64", " ", "-d", " ", ">", " ", "'">>
               \o device_path.v \o <<"'">>
    IN  Bind(shell_command(Str(cmd), as_root, h), h,
             LAMBDA res, h1: Ret(res.v[1], 0))

chmod(device_path, mode, recursive, as_root, h) ==
    LET flags == IF truthy(recursive) THEN <<"-R">> ELSE <<>>
        cmd == <<"chmod", " ">> \o flags \o <<" ">> \o mode.v \o <<" ", "'">>
               \o device_path.v \o <<"'">>
    IN  Bind(shell_command(Str(cmd), as_root, h), h,
             LAMBDA res, h1: Ret(res.v[1], 0))

chown(device_path, owner, group, recursive, as_root, h) ==
    LET flags == IF truthy(recursive) THEN <<"-R">> ELSE <<>>
        owner_group == IF truthy(group) THEN owner.v \o <<":">> \o group.v ELSE owner.v
        cmd == <<"chown", " ">> \o flags \o <<" ">> \o owner_group \o <<" ", "'">>
               \o device_path.v \o <<"'">>
    IN  Bind(shell_command(Str(cmd), as_root, h), h,
             LAMBDA res, h1: Ret(res.v[1], 0))

get_prop(prop_name, h) ==
    Bind(_run_adb(Words(<<"shell", "getprop">>) \o <<prop_name.v>>, h), h, LAMBDA r, h1:
        IF r.code # 0 THEN Ret(None, 0)
        ELSE IF ~Decodable(r.stdout) THEN Raise("UnicodeDecodeError")
        ELSE Ret(Str(strip(r.stdout)), 0))

open_url(url, h) ==
    Bind(_run_adb(Words(<<"shell", "am", "start", "-a", "android.intent.action.VIEW", "-d">>)
                  \o <<url.v>>, h), h,
         LAMBDA r, h1: Ret(Bool(r.code = 0), 0))

\* settings_map.get(setting, "android.settings.SETTINGS")
settings_action(setting) ==
    CASE setting.v = <<"wifi">> -> "android.settings.WIFI_SETTINGS"
      [] setting.v = <<"bluetooth">> -> "android.settings.BLUETOOTH_SETTINGS"
      [] setting.v = <<"display">> -> "android.settings.DISPLAY_SETTINGS"
      [] setting.v = <<"sound">> -> "android.settings.SOUND_SETTINGS"
      [] setting.v = <<"apps">> -> "android.settings.APPLICATION_SETTINGS"
      [] setting.v = <<"battery">> -> "android.intent.action.POWER_USAGE_SUMMARY"
      [] setting.v = <<"location">> -> "android.settings.LOCATION_SOURCE_SETTINGS"
      [] setting.v = <<"security">> -> "android.settings.SECURITY_SETTINGS"
      [] setting.v = <<"date">> -> "android.settings.DATE_SETTINGS"
      [] setting.v = <<"developer">> -> "android.settings.APPLICATION_DEVELOPMENT_SETTINGS"
      [] OTHER -> "android.settings.SETTINGS"

open_settings(setting, h) ==
    Bind(_run_adb(Words(<<"shell", "am", "start", "-a", settings_action(setting)>>), h), h,
         LAMBDA r, h1: Ret(Bool(r.code = 0), 0))

toggle_wifi(enable, h) ==
    LET action == IF truthy(enable) THEN "enable" ELSE "disable"
    IN  Bind(_run_adb(Words(<<"shell", "svc", "wifi", action>>), h), h,
             LAMBDA r, h1: Ret(Bool(r.code = 0), 0))

\* a variant of toggle_airplane_mode that gives up when the settings write fails: the
\* statement C28 tells the two apart
toggle_airplane_mode_checks_write(enable, h) ==
    LET value == IF truthy(enable) THEN "1" ELSE "0"
    IN  Bind(_run_adb(Words(<<"shell", "settings", "put", "global", "airplane_mode_on",
                              value>>), h), h,
          LAMBDA r1, h1:
            IF r1.code # 0 THEN Ret(Bool(FALSE), 0)
            ELSE Bind(_run_adb(Words(<<"shell", "am", "broadcast", "-a",
                                       "android.intent.action.AIRPLANE_MODE">>), h1), h1,
                      LAMBDA r, h2: Ret(Bool(r.code = 0), 0)))

toggle_airplane_mode(enable, h) ==
    LET value == IF truthy(enable) THEN "1" ELSE "0"
    IN  Bind(_run_adb(Words(<<"shell", "settings", "put", "global", "airplane_mode_on",
                              value>>), h), h,
          LAMBDA r1, h1:
            Bind(_run_adb(Words(<<"shell", "am", "broadcast", "-a",
                                  "android.intent.action.AIRPLANE_MODE">>), h1), h1,
                 LAMBDA r, h2: Ret(Bool(r.code = 0), 0)))

reboot(mode, h) ==
    Bind(_run_adb(Words(<<"reboot">>) \o (IF truthy(mode) THEN <<mode.v>> ELSE <<>>), h), h,
         LAMBDA r, h1: Ret(Bool(r.code = 0), 0))

get_logcat(lines, filter_tag, h) ==
    LET args == Words(<<"logcat", "-d", "-t">>) \o <<pystr(lines)>>
                \o (IF truthy(filter_tag) THEN Words(<<"-s">>) \o <<filter_tag.v>> ELSE <<>>)
    IN  Bind(_run_adb(args, h), h, LAMBDA r, h1:
            IF r.code # 0 THEN Ret(Str(<<>>), 0)
            ELSE IF ~Decodable(r.stdout) THEN Raise("UnicodeDecodeError")
            ELSE Ret(Str(r.stdout), 0))

clear_logcat(h) ==
    Bind(_run_adb(Words(<<"logcat", "-c">>), h), h,
         LAMBDA r, h1: Ret(Bool(r.code = 0), 0))

\* subprocess.run of its own, without -s, and TimeoutExpired caught
wait_for_device(timeout, h) ==
    LET s == subprocess_run(Words(<<"adb", "wait-for-device">>), timeout.v, h)
    IN  IF s.kind = "raise" /\ s.exc = "TimeoutExpired" THEN Ret(Bool(FALSE), 1)
        ELSE Bind(s, h, LAMBDA r, h1: Ret(Bool(r.code = 0), 0))

-----------------------------------------------------------------------------
(* server.py: the catalog and the dispatch *)

\* a variant of Tool that lists the tap operation under another name: the statement
\* C17 tells the two apart
Tool_misnamed(name, properties, required) ==
    [name |-> IF name = "tap" THEN "tap_at" ELSE name,
     properties |-> properties, required |-> required]

Tool(name, properties, required) ==
    [name |-> name, properties |-> properties, required |-> required]

list_tools ==
    << Tool("get_device_info", {}, {}),
       Tool("get_screenshot", {}, {}),
       Tool("get_ui_hierarchy", {}, {}),
       Tool("get_current_app", {}, {}),
       Tool("tap", {"x", "y"}, {"x", "y"}),
       Tool("swipe", {"x1", "y1", "x2", "y2", "duration_ms"}, {"x1", "y1", "x2", "y2"}),
       Tool("input_text", {"text"}, {"text"}),
       Tool("press_key", {"keycode"}, {"keycode"}),
       Tool("long_press", {"x", "y", "duration_ms"}, {"x", "y"}),
       Tool("double_tap", {"x", "y"}, {"x", "y"}),
       Tool("scroll_up", {"distance"}, {}),
       Tool("scroll_down", {"distance"}, {}),
       Tool("start_app", {"package_name", "activity"}, {"package_name"}),
       Tool("stop_app", {"package_name"}, {"package_name"}),
       Tool("clear_app_data", {"package_name"}, {"package_name"}),
       Tool("install_apk", {"apk_path", "replace"}, {"apk_path"}),
       Tool("uninstall_app", {"package_name"}, {"package_name"}),
       Tool("list_packages", {"filter_type"}, {}),
       Tool("get_app_info", {"package_name"}, {"package_name"}),
       Tool("list_files", {"path"}, {}),
       Tool("read_file", {"device_path"}, {"device_path"}),
       Tool("write_file", {"device_path", "content", "as_root"}, {"device_path", "content"}),
       Tool("chmod", {"device_path", "mode", "recursive", "as_root"}, {"device_path", "mode"}),
       Tool("chown", {"device_path", "owner", "group", "recursive", "as_root"},
            {"device_path", "owner"}),
       Tool("push_file", {"local_path", "device_path"}, {"local_path", "device_path"}),
       Tool("pull_file", {"device_path", "local_path"}, {"device_path", "local_path"}),
       Tool("delete_file", {"device_path"}, {"device_path"}),
       Tool("get_battery_info", {}, {}),
       Tool("get_wifi_info", {}, {}),
       Tool("get_ip_address", {}, {}),
       Tool("get_running_processes", {}, {}),
       Tool("get_notifications", {}, {}),
       Tool("open_notification_panel", {}, {}),
       Tool("close_notification_panel", {}, {}),
       Tool("open_settings", {"setting"}, {}),
       Tool("open_url", {"url"}, {"url"}),
       Tool("toggle_wifi", {"enable"}, {"enable"}),
       Tool("toggle_airplane_mode", {"enable"}, {"enable"}),
       Tool("set_brightness", {"level"}, {"level"}),
       Tool("set_volume", {"stream", "level"}, {"stream", "level"}),
       Tool("shell_command", {"command", "as_root"}, {"command"}),
       Tool("get_logcat", {"lines", "filter_tag"}, {}),
       Tool("clear_logcat", {}, {}),
       Tool("get_prop", {"prop_name"}, {"prop_name"}),
       Tool("reboot", {"mode"}, {}),
       Tool("screen_record", {"output_path", "duration_seconds"}, {"output_path"}) >>

TextContent(text) == [type |-> "text", text |-> text]

ImageContent(data, mimeType) == [type |-> "image", data |-> data, mimeType |-> mimeType]

text_result(msg) == <<TextContent(Str(msg))>>

\* the text is json.dumps(data, indent=2, ensure_ascii=False)
json_result(data) == <<TextContent([t |-> "json", v |-> data])>>

\* a variant of success_result that says Success whatever the channel returned: the
\* statement C25 tells the two apart
success_result_always(action, success) == text_result(action \o <<": ">> \o <<"Success">>)

success_result(action, success) ==
    text_result(action \o <<": ">> \o (IF truthy(success) THEN <<"Success">> ELSE <<"Failed">>))

\* the value of a byte of captured output
byte_val(c) == IF c = BAD THEN 255 ELSE ord(c)

\* arguments.get(key, default)
get(arguments, key, default) == IF key \in DOMAIN arguments THEN arguments[key] ELSE default

\* s, after the lookups arguments[k] of the keys, each of which raises KeyError
\* when the key is absent
Lookup(arguments, keys, s) == IF keys \subseteq DOMAIN arguments THEN s ELSE Raise("KeyError")

\* return success_result(action, <the bool the channel operation s returns>)
Succeeds(action, s, h) == Bind(s, h, LAMBDA v, h1: Ret(success_result(action, v), 0))

\* 'enabled' if arguments['enable'] else 'disabled'
enabled_word(arguments) == IF truthy(arguments["enable"]) THEN <<"enabled">> ELSE <<"disabled">>

\* a variant of unknown_tool that raises where the dispatch returns a text: the
\* statement C2 tells the two apart
unknown_tool_raises(name, h) == Raise("ValueError")

\* the else branch of the dispatch: return text_result(f"Unknown tool: {name}")
unknown_tool(name, h) == Ret(text_result(<<"Unknown tool: ">> \o <<name>>), 0)

call_tool(name, arguments, h) ==
    CASE name = "get_device_info" ->
           Bind(get_device_info(h), h, LAMBDA v, h1: Ret(json_result(v), 0))
      [] name = "get_screenshot" ->
           Bind(screenshot(h), h, LAMBDA screenshot_bytes, h1:
               IF truthy(screenshot_bytes)
               THEN Ret(<<ImageContent(
                            b64encode([i \in 1..Len(screenshot_bytes.v) |->
                                          byte_val(screenshot_bytes.v[i])]),
                            "image/png")>>, 0)
               ELSE Ret(text_result(<<"Error: Failed to capture screenshot">>), 0))
      [] name = "get_ui_hierarchy" ->
           Bind(get_ui_hierarchy(h), h, LAMBDA hierarchy, h1:
               Ret(text_result(IF truthy(hierarchy) THEN hierarchy.v
                               ELSE <<"Error: Failed to get UI hierarchy">>), 0))
      [] name = "get_current_app" ->
           Bind(get_current_app(h), h, LAMBDA app_info, h1:
               IF truthy(app_info) THEN Ret(json_result(app_info), 0)
               ELSE Ret(text_result(<<"Error: Could not determine current app">>), 0))
      [] name = "tap" ->
           Lookup(arguments, {"x", "y"},
               Succeeds(<<"Tap at (">> \o pystr(arguments["x"]) \o <<", ">>
                        \o pystr(arguments["y"]) \o <<")">>,
                        tap(arguments["x"], arguments["y"], h), h))
      [] name = "swipe" ->
           Lookup(arguments, {"x1", "y1", "x2", "y2"},
               Succeeds(<<"Swipe from (">> \o pystr(arguments["x1"]) \o <<", ">>
                        \o pystr(arguments["y1"]) \o <<") to (">> \o pystr(arguments["x2"])
                        \o <<", ">> \o pystr(arguments["y2"]) \o <<")">>,
                        swipe(arguments["x1"], arguments["y1"], arguments["x2"],
                              arguments["y2"], get(arguments, "duration_ms", IntV(300)), h), h))
      [] name = "input_text" ->
           Lookup(arguments, {"text"},
               Succeeds(<<"Input text '">> \o pystr(arguments["text"]) \o <<"'">>,
                        input_text(arguments["text"], h), h))
      [] name = "press_key" ->
           Lookup(arguments, {"keycode"},
               Succeeds(<<"Press key ">> \o pystr(arguments["keycode"]),
                        press_key(arguments["keycode"], h), h))
      [] name = "long_press" ->
           Lookup(arguments, {"x", "y"},
               Succeeds(<<"Long press at (">> \o pystr(arguments["x"]) \o <<", ">>
                        \o pystr(arguments["y"]) \o <<")">>,
                        long_press(arguments["x"], arguments["y"],
                                   get(arguments, "duration_ms", IntV(1000)), h), h))
      [] name = "double_tap" ->
           Lookup(arguments, {"x", "y"},
               Succeeds(<<"Double tap at (">> \o pystr(arguments["x"]) \o <<", ">>
                        \o pystr(arguments["y"]) \o <<")">>,
                        double_tap(arguments["x"], arguments["y"], h), h))
      [] name = "scroll_up" ->
           Succeeds(<<"Scroll up">>,
                    scroll_up(None, get(arguments, "distance", IntV(500)), h), h)
      [] name = "scroll_down" ->
           Succeeds(<<"Scroll down">>,
                    scroll_down(None, get(arguments, "distance", IntV(500)), h), h)
      [] name = "start_app" ->
           Lookup(arguments, {"package_name"},
               Succeeds(<<"Start app ">> \o pystr(arguments["package_name"]),
                        start_app(arguments["package_name"], get(arguments, "activity", None), h),
                        h))
      [] name = "stop_app" ->
           Lookup(arguments, {"package_name"},
               Succeeds(<<"Stop app ">> \o pystr(arguments["package_name"]),
                        stop_app(arguments["package_name"], h), h))
      [] name = "clear_app_data" ->
           Lookup(arguments, {"package_name"},
               Succeeds(<<"Clear data for ">> \o pystr(arguments["package_name"]),
                        clear_app_data(arguments["package_name"], h), h))
      [] name = "install_apk" ->
           Lookup(arguments, {"apk_path"},
               Bind(install_apk(arguments["apk_path"], get(arguments, "replace", Bool(TRUE)), h),
                    h, LAMBDA res, h1:
                   Ret(text_result(<<"Install APK: ">>
                                   \o (IF truthy(res.v[1]) THEN <<"Success">> ELSE <<"Failed">>)
                                   \o <<" - ">> \o res.v[2].v), 0)))
      [] name = "uninstall_app" ->
           Lookup(arguments, {"package_name"},
               Succeeds(<<"Uninstall ">> \o pystr(arguments["package_name"]),
                        uninstall_app(arguments["package_name"], h), h))
      [] name = "list_packages" ->
           Bind(list_packages(get(arguments, "filter_type", Str(<<"all">>)), h), h,
                LAMBDA packages, h1:
                   Ret(json_result(Dict([count |-> Len(packages.v), packages |-> packages])), 0))
      [] name = "get_app_info" ->
           Lookup(arguments, {"package_name"},
               Bind(get_app_info(arguments["package_name"], h), h, LAMBDA info, h1:
                   IF truthy(info) THEN Ret(json_result(info), 0)
                   ELSE Ret(text_result(<<"Error: App not found">>), 0)))
      [] name = "list_files" ->
           Bind(list_files(get(arguments, "path", Str(<<"/sdcard">>)), h), h,
                LAMBDA v, h1: Ret(json_result(v), 0))
      [] name = "read_file" ->
           Lookup(arguments, {"device_path"},
               Bind(read_file(arguments["device_path"], h), h, LAMBDA content, h1:
                   Ret(text_result(IF truthy(content) THEN content.v
                                   ELSE <<"Error: Failed to read file">>), 0)))
      [] name = "write_file" ->
           Lookup(arguments, {"device_path", "content"},
               Succeeds(<<"Write file ">> \o pystr(arguments["device_path"]),
                        write_file(arguments["device_path"], arguments["content"],
                                   get(arguments, "as_root", Bool(FALSE)), h), h))
      [] name = "chmod" ->
           Lookup(arguments, {"device_path", "mode"},
               Succeeds(<<"Chmod ">> \o pystr(arguments["mode"]) \o <<" ">>
                        \o pystr(arguments["device_path"]),
                        chmod(arguments["device_path"], arguments["mode"],
                              get(arguments, "recursive", Bool(FALSE)),
                              get(arguments, "as_root", Bool(FALSE)), h), h))
      [] name = "chown" ->
           Lookup(arguments, {"device_path", "owner"},
               Succeeds(<<"Chown ">> \o pystr(arguments["owner"]) \o <<" ">>
                        \o pystr(arguments["device_path"]),
                        chown(arguments["device_path"], arguments["owner"],
                              get(arguments, "group", None),
                              get(arguments, "recursive", Bool(FALSE)),
                              get(arguments, "as_root", Bool(FALSE)), h), h))
      [] name = "push_file" ->
           Lookup(arguments, {"local_path", "device_path"},
               Succeeds(<<"Push ">> \o pystr(arguments["local_path"]) \o <<" -> ">>
                        \o pystr(arguments["device_path"]),
                        push_file(arguments["local_path"], arguments["device_path"], h), h))
      [] name = "pull_file" ->
           Lookup(arguments, {"device_path", "local_path"},
               Succeeds(<<"Pull ">> \o pystr(arguments["device_path"]) \o <<" -> ">>
                        \o pystr(arguments["local_path"]),
                        pull_file(arguments["device_path"], arguments["local_path"], h), h))
      [] name = "delete_file" ->
           Lookup(arguments, {"device_path"},
               Succeeds(<<"Delete ">> \o pystr(arguments["device_path"]),
                        delete_file(arguments["device_path"], h), h))
      [] name = "get_battery_info" ->
           Bind(get_battery_info(h), h, LAMBDA v, h1: Ret(json_result(v), 0))
      [] name = "get_wifi_info" ->
           Bind(get_wifi_info(h), h, LAMBDA v, h1: Ret(json_result(v), 0))
      [] name = "get_ip_address" ->
           Bind(get_ip_address(h), h, LAMBDA ip, h1:
               Ret(text_result(IF truthy(ip) THEN ip.v ELSE <<"Error: Could not get IP">>), 0))
      [] name = "get_running_processes" ->
           Bind(get_running_processes(h), h, LAMBDA v, h1: Ret(json_result(v), 0))
      [] name = "get_notifications" ->
           Bind(get_notifications(h), h, LAMBDA v, h1: Ret(json_result(v), 0))
      [] name = "open_notification_panel" ->
           Succeeds(<<"Open notification panel">>, open_notification_panel(h), h)
      [] name = "close_notification_panel" ->
           Succeeds(<<"Close notification panel">>, close_notification_panel(h), h)
      [] name = "open_settings" ->
           Succeeds(<<"Open settings '">> \o pystr(get(arguments, "setting", Str(<<>>)))
                    \o <<"'">>,
                    open_settings(get(arguments, "setting", Str(<<>>)), h), h)
      [] name = "open_url" ->
           Lookup(arguments, {"url"},
               Succeeds(<<"Open URL ">> \o pystr(arguments["url"]),
                        open_url(arguments["url"], h), h))
      [] name = "toggle_wifi" ->
           Lookup(arguments, {"enable"},
               Succeeds(<<"WiFi ">> \o enabled_word(arguments),
                        toggle_wifi(arguments["enable"], h), h))
      [] name = "toggle_airplane_mode" ->
           Lookup(arguments, {"enable"},
               Succeeds(<<"Airplane mode ">> \o enabled_word(arguments),
                        toggle_airplane_mode(arguments["enable"], h), h))
      [] name = "set_brightness" ->
           Lookup(arguments, {"level"},
               Succeeds(<<"Set brightness to ">> \o pystr(arguments["level"]),
                        set_brightness(arguments["level"], h), h))
      [] name = "set_volume" ->
           Lookup(arguments, {"stream", "level"},
               Succeeds(<<"Set ">> \o pystr(arguments["stream"]) \o <<" volume to ">>
                        \o pystr(arguments["level"]),
                        set_volume(arguments["stream"], arguments["level"], h), h))
      [] name = "shell_command" ->
           Lookup(arguments, {"command"},
               Bind(shell_command(arguments["command"], get(arguments, "as_root", Bool(FALSE)),
                                  h), h, LAMBDA res, h1:
                   Ret(text_result((IF truthy(res.v[1]) THEN <<"Success">> ELSE <<"Failed">>)
                                   \o <<":", "\n">> \o res.v[2].v), 0)))
      [] name = "get_logcat" ->
           Bind(get_logcat(get(arguments, "lines", IntV(100)),
                           get(arguments, "filter_tag", None), h), h, LAMBDA output, h1:
               Ret(text_result(IF truthy(output) THEN output.v
                               ELSE <<"Error: Failed to get logcat">>), 0))
      [] name = "clear_logcat" ->
           Succeeds(<<"Clear logcat">>, clear_logcat(h), h)
      [] name = "get_prop" ->
           Lookup(arguments, {"prop_name"},
               Bind(get_prop(arguments["prop_name"], h), h, LAMBDA value, h1:
                   Ret(text_result(IF truthy(value)
                                   THEN pystr(arguments["prop_name"]) \o <<" = ">> \o value.v
                                   ELSE <<"Error: Property not found">>), 0)))
      [] name = "reboot" ->
           Succeeds(<<"Reboot ">> \o pystr(get(arguments, "mode", Str(<<>>))),
                    reboot(get(arguments, "mode", Str(<<>>)), h), h)
      [] name = "screen_record" ->
           Lookup(arguments, {"output_path"},
               Succeeds(<<"Screen record to ">> \o pystr(arguments["output_path"]),
                        screen_record(arguments["output_path"],
                                      get(arguments, "duration_seconds", IntV(10)), h), h))
      [] OTHER -> unknown_tool(name, h)

\* a call of a public method of the channel by a user of the class
ADBClient(method, a, h) ==
    CASE method = "get_devices" -> get_devices(h)
      [] method = "get_device_info" -> get_device_info(h)
      [] method = "screenshot" -> screenshot(h)
      [] method = "get_ui_hierarchy" -> get_ui_hierarchy(h)
      [] method = "tap" -> tap(a["x"], a["y"], h)
      [] method = "swipe" -> swipe(a["x1"], a["y1"], a["x2"], a["y2"], a["duration_ms"], h)
      [] method = "input_text" -> input_text(a["text"], h)
      [] method = "press_key" -> press_key(a["keycode"], h)
      [] method = "start_app" -> start_app(a["package_name"], a["activity"], h)
      [] method = "get_current_app" -> get_current_app(h)
      [] method = "stop_app" -> stop_app(a["package_name"], h)
      [] method = "clear_app_data" -> clear_app_data(a["package_name"], h)
      [] method = "install_apk" -> install_apk(a["apk_path"], a["replace"], h)
      [] method = "uninstall_app" -> uninstall_app(a["package_name"], h)
      [] method = "list_packages" -> list_packages(a["filter_type"], h)
      [] method = "get_app_info" -> get_app_info(a["package_name"], h)
      [] method = "push_file" -> push_file(a["local_path"], a["device_path"], h)
      [] method = "pull_file" -> pull_file(a["device_path"], a["local_path"], h)
      [] method = "list_files" -> list_files(a["path"], h)
      [] method = "file_exists" -> file_exists(a["device_path"], h)
      [] method = "delete_file" -> delete_file(a["device_path"], h)
      [] method = "read_file" -> read_file(a["device_path"], h)
      [] method = "set_clipboard" -> set_clipboard(a["text"], h)
      [] method = "get_clipboard" -> get_clipboard(h)
      [] method = "get_notifications" -> get_notifications(h)
      [] method = "open_notification_panel" -> open_notification_panel(h)
      [] method = "close_notification_panel" -> close_notification_panel(h)
      [] method = "get_battery_info" -> get_battery_info(h)
      [] method = "get_wifi_info" -> get_wifi_info(h)
      [] method = "get_ip_address" -> get_ip_address(h)
      [] method = "get_running_processes" -> get_running_processes(h)
      [] method = "long_press" -> long_press(a["x"], a["y"], a["duration_ms"], h)
      [] method = "double_tap" -> double_tap(a["x"], a["y"], h)
      [] method = "pinch" -> pinch(a["center_x"], a["center_y"], a["start_distance"],
                                   a["end_distance"], h)
      [] method = "scroll_up" -> scroll_up(a["x"], a["distance"], h)
      [] method = "scroll_down" -> scroll_down(a["x"], a["distance"], h)
      [] method = "take_photo" -> take_photo(a["save_path"], h)
      [] method = "screen_record" -> screen_record(a["output_path"], a["duration_seconds"], h)
      [] method = "set_brightness" -> set_brightness(a["level"], h)
      [] method = "set_volume" -> set_volume(a["stream"], a["level"], h)
      [] method = "shell_command" -> shell_command(a["command"], a["as_root"], h)
      [] method = "write_file" -> write_file(a["device_path"], a["content"], a["as_root"], h)
      [] method = "chmod" -> chmod(a["device_path"], a["mode"], a["recursive"], a["as_root"], h)
      [] method = "chown" -> chown(a["device_path"], a["owner"], a["group"], a["recursive"],
                                   a["as_root"], h)
      [] method = "get_prop" -> get_prop(a["prop_name"], h)
      [] method = "open_url" -> open_url(a["url"], h)
      [] method = "open_settings" -> open_settings(a["setting"], h)
      [] method = "toggle_wifi" -> toggle_wifi(a["enable"], h)
      [] method = "toggle_airplane_mode" -> toggle_airplane_mode(a["enable"], h)
      [] method = "reboot" -> reboot(a["mode"], h)
      [] method = "get_logcat" -> get_logcat(a["lines"], a["filter_tag"], h)
      [] method = "clear_logcat" -> clear_logcat(h)
      [] method = "wait_for_device" -> wait_for_device(a["timeout"], h)

-----------------------------------------------------------------------------
(* The callers: the requests the model makes *)

\* the longest text the model passes as a parameter, in characters
MaxText == 3

\* the values the model passes for a parameter
ParamValues(key) ==
    CASE key \in {"x", "x1", "center_x"} -> {IntV(100)}
      [] key \in {"y", "y1", "center_y"} -> {IntV(200)}
      [] key = "x2" -> {IntV(300)}
      [] key = "y2" -> {IntV(400)}
      [] key = "duration_ms" -> {IntV(50)}
      [] key = "distance" -> {IntV(250)}
      [] key = "start_distance" -> {IntV(40), IntV(75), IntV(90)}
      [] key = "end_distance" -> {IntV(60)}
      [] key = "text" ->
            {Str(<<"hello", " ", "world">>)}
            \cup {Str(t) : t \in UNION {[1..k -> {"a", " ", "%"}] : k \in 0..MaxText}}
      [] key = "keycode" -> {Str(<<"KEYCODE_HOME">>)}
      [] key = "package_name" -> {Str(<<"com", ".", "a">>)}
      [] key = "activity" -> {None, Str(<<".", "Main">>)}
      [] key = "apk_path" -> {Str(<<"a", ".", "apk">>)}
      [] key \in {"replace", "recursive", "as_root", "enable"} -> {Bool(TRUE), Bool(FALSE)}
      [] key = "filter_type" -> {Str(<<"all">>), Str(<<"system">>)}
      [] key \in {"path", "device_path", "output_path", "save_path"} -> {Str(<<"/", "a">>)}
      [] key = "local_path" -> {Str(<<"/", "b">>)}
      [] key = "content" ->
            {Str(t) : t \in UNION {[1..k -> {"a", "'", "\"", "\n", "<e-acute>"}] :
                                      k \in 0..MaxText}}
      [] key = "mode" -> {Str(<<"7", "5", "5">>), Str(<<>>)}
      [] key = "owner" -> {Str(<<"root">>)}
      [] key = "group" -> {None, Str(<<"shell">>)}
      [] key = "setting" -> {Str(<<"wifi">>), Str(<<"a">>)}
      [] key = "url" -> {Str(<<"http", ":", "/", "/", "a">>)}
      [] key = "level" -> {IntV(0 - 1), IntV(0), IntV(128), IntV(255), IntV(256), IntV(300)}
      [] key = "stream" -> {Str(<<"ring">>), Str(<<"a">>)}
      [] key = "command" ->
            {Str(<<"a", " ", "'", "b", "'">>)}
            \cup {Str(t) : t \in UNION {[1..k -> {"a", " ", "'", "\\"}] : k \in 0..MaxText}}
      [] key = "lines" -> {IntV(5)}
      [] key = "filter_tag" -> {None, Str(<<"a">>)}
      [] key = "prop_name" -> {Str(<<"p">>)}
      [] key = "duration_seconds" -> {IntV(3)}
      [] key = "timeout" -> {IntV(30)}

\* every assignment of values to exactly the parameters keys
RECURSIVE ArgSets(_)
ArgSets(keys) ==
    IF keys = {} THEN {EmptyDict}
    ELSE LET k == CHOOSE k \in keys : TRUE
         IN  {DictSet(f, k, v) : f \in ArgSets(keys \ {k}), v \in ParamValues(k)}

\* the calls of call_tool with a listed name: any of its parameters present
ListedRequests ==
    UNION {{[entry |-> "call_tool", name |-> list_tools[i].name, arguments |-> a] :
               a \in UNION {ArgSets(K) : K \in SUBSET list_tools[i].properties}} :
           i \in 1..Len(list_tools)}

\* the calls of call_tool with a name that is not listed
UnlistedRequests ==
    {[entry |-> "call_tool", name |-> n, arguments |-> a] :
        n \in {"pinch", "get_devices", "no_such_tool"},
        a \in UNION {ArgSets(K) : K \in SUBSET {"x", "y"}}}

\* the parameters of the public methods of ADBClient
MethodParams ==
    [get_devices |-> {}, get_device_info |-> {}, screenshot |-> {}, get_ui_hierarchy |-> {},
     tap |-> {"x", "y"}, swipe |-> {"x1", "y1", "x2", "y2", "duration_ms"},
     input_text |-> {"text"}, press_key |-> {"keycode"},
     start_app |-> {"package_name", "activity"}, get_current_app |-> {},
     stop_app |-> {"package_name"}, clear_app_data |-> {"package_name"},
     install_apk |-> {"apk_path", "replace"}, uninstall_app |-> {"package_name"},
     list_packages |-> {"filter_type"}, get_app_info |-> {"package_name"},
     push_file |-> {"local_path", "device_path"}, pull_file |-> {"device_path", "local_path"},
     list_files |-> {"path"}, file_exists |-> {"device_path"}, delete_file |-> {"device_path"},
     read_file |-> {"device_path"}, set_clipboard |-> {"text"}, get_clipboard |-> {},
     get_notifications |-> {}, open_notification_panel |-> {},
     close_notification_panel |-> {}, get_battery_info |-> {}, get_wifi_info |-> {},
     get_ip_address |-> {}, get_running_processes |-> {},
     long_press |-> {"x", "y", "duration_ms"}, double_tap |-> {"x", "y"},
     pinch |-> {"center_x", "center_y", "start_distance", "end_distance"},
     scroll_up |-> {"x", "distance"}, scroll_down |-> {"x", "distance"},
     take_photo |-> {"save_path"}, screen_record |-> {"output_path", "duration_seconds"},
     set_brightness |-> {"level"}, set_volume |-> {"stream", "level"},
     shell_command |-> {"command", "as_root"},
     write_file |-> {"device_path", "content", "as_root"},
     chmod |-> {"device_path", "mode", "recursive", "as_root"},
     chown |-> {"device_path", "owner", "group", "recursive", "as_root"},
     get_prop |-> {"prop_name"}, open_url |-> {"url"}, open_settings |-> {"setting"},
     toggle_wifi |-> {"enable"}, toggle_airplane_mode |-> {"enable"}, reboot |-> {"mode"},
     get_logcat |-> {"lines", "filter_tag"}, clear_logcat |-> {},
     wait_for_device |-> {"timeout"}]

\* the calls of a public method: every parameter given; x=None too for the scrolls
MethodRequests ==
    UNION {{[entry |-> "ADBClient", name |-> m, arguments |-> a] :
               a \in ArgSets(MethodParams[m])
                     \cup (IF m \in {"scroll_up", "scroll_down"}
                           THEN {DictSet(b, "x", None) : b \in ArgSets({"distance"})}
                           ELSE {})} :
           m \in DOMAIN MethodParams}

-----------------------------------------------------------------------------
(* The bridge tool and the device: what an invocation can print *)

\* the arguments of a command line after "adb" and "-s <serial>"
adb_args(cmd) ==
    IF Len(cmd) >= 3 /\ cmd[2] = <<"-s">> THEN SubSeq(cmd, 4, Len(cmd)) ELSE Tail(cmd)

\* the first n arguments of a are the words ws
is_cmd(a, ws) == Len(a) >= Len(ws) /\ SubSeq(a, 1, Len(ws)) = Words(ws)

\* the longest listing of devices the model enumerates, in characters after the header
MaxOut == 7

\* the first line "adb devices" prints
DevicesHeader == <<"List", " ", "of", " ", "devices", " ", "attached">>

\* every text of at most MaxOut characters that can follow the header
DevicesRows == UNION {[1..k -> {"a", "\t", "\n"}] : k \in 0..MaxOut}

\* the most records a dump of notifications of the model has
MaxRecords == 25

\* the three lines dumpsys prints for the i-th notification of a dump
NotificationRecord(i) ==
    <<"NotificationRecord", "(", "0", "x", "1", " ", "pkg", "=", "com", ".", "n">> \o str(i)
        \o <<" ", "user", "=", "0", ")", "\n">>
    \o <<" ", " ", "android.title", "=", "String", " ", "(", "t">> \o str(i) \o <<")", "\n">>
    \o <<" ", " ", "android.text", "=", "String", " ", "(", "x">> \o str(i) \o <<")", "\n">>

\* a dump of n notifications
RECURSIVE NotificationDump(_)
NotificationDump(n) ==
    IF n = 0 THEN <<"a", "\n">> ELSE NotificationDump(n - 1) \o NotificationRecord(n)

\* the most lines of a notification dump the model enumerates line by line
MaxScan == 4

\* lines of a notification dump: a marker line with a part that starts with pkg=, a
\* marker line without one, a title line, a text line, a line with a title and a text
ScanLines ==
    { <<"Record", " ", "pkg", "=", "com", ".", "a", " ", "pkg", "=", "com", ".", "b", ")">>,
      <<"Record", "(", "pkg", "=", "com", ".", "c", ")">>,
      <<" ", "android.title", "=", "t", " ">>,
      <<" ", "android.text", "=", "x">>,
      <<"android.title", "=", "u", " ", "android.text", "=", "y", " ", "android.title", "=", "v">> }

\* the notification dumps of up to MaxScan of these lines, each ended by a newline
RECURSIVE NotificationScansOf(_)
NotificationScansOf(n) ==
    IF n = 0 THEN {<<>>}
    ELSE {l \o <<"\n">> \o d : l \in ScanLines, d \in NotificationScansOf(n - 1)}

NotificationScans == UNION {NotificationScansOf(n) : n \in 0..MaxScan}

\* the most lines of a window dump the model enumerates
MaxLines == 3

\* lines of a window dump: a component on a line without a focus marker, a marker line
\* with a component before a closing brace, a marker line with "/" and "." in different
\* tokens only, a marker line without "/", a marker line with two components, a marker
\* line with a second "/" in its component
FocusLines ==
    { <<"x", " ", "com", ".", "x", "/", ".", "X">>,
      <<" ", "mCurrentFocus", "=", "Window", "{", "1", " ", "u", "0", " ",
        "com", ".", "a", "/", "com", ".", "a", ".", "Main", "}">>,
      <<"mFocusedApp", "=", "b", " ", "a", "/", "b", " ", "c", ".", "d">>,
      <<"mCurrentFocus", "=", "null">>,
      <<"mFocusedApp", " ", "com", ".", "b", "/", ".", "B", "\t", "com", ".", "c", "/", ".", "C">>,
      <<"mCurrentFocus", " ", "com", ".", "d", "/", ".", "D", "/", "e", "}", "}">> }

\* the window dumps of up to MaxLines of these lines, each ended by a newline
RECURSIVE FocusDumpsOf(_)
FocusDumpsOf(n) ==
    IF n = 0 THEN {<<>>}
    ELSE {l \o <<"\n">> \o d : l \in FocusLines, d \in FocusDumpsOf(n - 1)}

FocusDumps == UNION {FocusDumpsOf(n) : n \in 0..MaxLines}

\* what a command whose output is read as text prints
TextOutputs == { <<"a", "\n">>, <<"a">>, <<" ", "\n">>, <<>>, <<BAD>> }

\* what the invocation with the arguments a prints on standard output when it exits 0
Stdouts(a) ==
    CASE is_cmd(a, <<"devices">>) ->
            { <<>>,
              <<"\n", " ", "\n">>,
              <<BAD>>,
              <<"\n">> \o DevicesHeader \o <<"\n", "a", "\t", "device", "\n", "\n", "b", "\n",
                                            "c", " ", "offline", " ", "usb", "\n", "\n">> }
            \cup {DevicesHeader \o t : t \in DevicesRows}
      [] is_cmd(a, <<"shell", "getprop", "ro.product.model">>)
         \/ is_cmd(a, <<"shell", "getprop", "ro.build.version.release">>)
         \/ is_cmd(a, <<"shell", "getprop", "ro.build.version.sdk">>)
         \/ is_cmd(a, <<"shell", "getprop", "ro.product.manufacturer">>) -> {<<"a", "\n">>}
      [] is_cmd(a, <<"shell", "wm", "size">>) ->
            { <<"Physical size", ":", " ", "1", "0", "8", "0", "x", "1", "9", "2", "0", "\n">>,
              <<"Physical size", ":", " ", "1", "0", "8", "0", "x", "1", "9", "2", "0", "\n",
                "Override size", ":", " ", "7", "2", "0", "x", "1", "2", "8", "0", "\n">>,
              <<"1", "0", "8", "0", "x", "1", "9", "2", "0", "\n">>,
              <<"error", ":", " ", "a", "\n">> }
      [] is_cmd(a, <<"shell", "wm", "density">>) ->
            { <<"Physical density", ":", " ", "4", "2", "0", "\n">>, <<"a", "\n">>, <<BAD>> }
      [] is_cmd(a, <<"exec-out">>) -> {<<>>, <<"a">>, <<BAD, "a">>}
      [] is_cmd(a, <<"shell", "dumpsys", "window">>) ->
            { <<"a", "\n",
                " ", "mCurrentFocus", "=", "Window", "{", "1", " ", "u", "0", " ",
                "com", ".", "a", "/", "com", ".", "a", ".", "Main", "}", "\n",
                " ", "mFocusedApp", "=", "b", " ", "com", ".", "b", "/", ".", "B", "\n">>,
              <<"mCurrentFocus", "=", "null", "\n",
                "mFocusedApp", "=", "com", ".", "b", "/", ".", "B", "\n">>,
              <<"a", "\n">>,
              <<BAD>> } \cup FocusDumps
      [] is_cmd(a, <<"shell", "dumpsys", "package">>) ->
            { <<" ", "versionCode", "=", "1", "2", " ", "minSdk", "=", "2", "\n",
                " ", "versionName", "=", "1", ".", "0", "\n",
                " ", "firstInstallTime", "=", "a", "\n",
                " ", "lastUpdateTime", "=", "b", "\n">>,
              <<"versionCode", "=", "\n">>,
              <<"a", "\n">>,
              <<>>,
              <<BAD>> }
      [] is_cmd(a, <<"shell", "dumpsys", "notification">>) ->
            { <<"NotificationRecord", "(", "pkg", "=", "com", ".", "a", " ", "user", "=", "0", ")", "\n",
                " ", "android.title", "=", "String", " ", "(", "t", ")", "\n",
                " ", "android.text", "=", "String", " ", "(", "x", ")", "\n",
                "NotificationRecord", "(", "pkg", "=", "com", ".", "b", " ", "user", "=", "0", ")", "\n",
                " ", "android.title", "=", "String", " ", "(", "u", ")", "\n">>,
              <<"android.title", "=", "t", "\n">>,
              <<"a", "\n">>,
              <<>>,
              <<BAD>> }
            \cup {NotificationDump(n) : n \in 0..MaxRecords}
            \cup NotificationScans
      [] is_cmd(a, <<"shell", "dumpsys", "battery">>) ->
            { <<"Current Battery Service state", ":", "\n",
                " ", " ", "A", "C", " ", "powered", ":", " ", "false", "\n",
                " ", " ", "level", ":", " ", "8", "5", "\n">>,
              <<"a", "\n">>,
              <<>> }
      [] is_cmd(a, <<"shell", "dumpsys", "wifi">>) ->
            { <<"mWifiInfo", " ", "SSID", ":", " ", "net", ",", " ", "B", "SSID", ":", " ", "0", ",",
                " ", "RSSI", ":", " ", "-", "5", "0", ",", " ", "Link speed", ":", " ", "7", "2",
                "Mbps", ",", "\n">>,
              <<"mWifiInfo", " ", "a", "\n">>,
              <<"a", "\n">> }
      [] is_cmd(a, <<"shell", "ip">>) ->
            { <<"1", " ", "via", " ", "2", " ", "dev", " ", "wlan0", " ", "src", " ", "3", " ",
                "uid", " ", "0", "\n">>,
              <<"src", "\n">>,
              <<"a", "\n">> }
      [] is_cmd(a, <<"shell", "ps">>) ->
            { <<"USER", " ", "PID", " ", "NAME", "\n",
                "root", " ", "1", " ", "0", " ", "1", " ", "2", " ", "3", " ", "4", " ", "S", " ",
                "init", "\n",
                "a", " ", "b", "\n">>,
              <<>> }
      [] is_cmd(a, <<"shell", "pm", "list">>) ->
            { <<"package", ":", "com", ".", "a", "\n", "a", "\n", "package", ":", "com", ".", "b",
                "\n">>,
              <<>> }
      [] is_cmd(a, <<"shell", "ls">>) ->
            { <<"total", " ", "8", "\n",
                "d", "r", "w", "x", " ", "2", " ", "root", " ", "root", " ", "4", "0", " ",
                "2", "0", "2", "4", " ", "1", "2", ":", "0", "0", " ", "my", " ", "dir", "\n",
                "-", "r", "w", "-", " ", "1", " ", "root", " ", "root", " ", "7", " ",
                "2", "0", "2", "4", " ", "1", "2", ":", "0", "0", " ", "f", "\n">>,
              <<>> }
      [] is_cmd(a, <<"shell", "cat">>) \/ is_cmd(a, <<"shell", "getprop">>)
         \/ is_cmd(a, <<"logcat", "-d">>) \/ is_cmd(a, <<"install">>)
         \/ is_cmd(a, <<"shell", "am", "broadcast", "-a", "clipper.get">>) -> TextOutputs
      [] is_cmd(a, <<"shell">>) /\ Len(a) = 2 -> {<<"a", "\n">>, <<>>}
      [] OTHER -> {<<>>}

\* what it prints on standard output when it exits with another status
FailStdouts(a) ==
    IF is_cmd(a, <<"exec-out">>) \/ is_cmd(a, <<"devices">>) \/ is_cmd(a, <<"shell", "cat">>)
    THEN {<<>>, <<"a">>}
    ELSE {<<>>}

\* the results of an invocation whose process exits
Outcomes(cmd) ==
    {[code |-> 0, stdout |-> o, stderr |-> <<>>] : o \in Stdouts(adb_args(cmd))}
    \cup {[code |-> 1, stdout |-> o, stderr |-> <<"e", "\n">>] : o \in FailStdouts(adb_args(cmd))}

-----------------------------------------------------------------------------
(* The actions *)

NoCall == [entry |-> "none", name |-> "", arguments |-> EmptyDict]

NoResponse == [kind |-> "none"]

Init ==
    /\ device_serial \in {None, Str(<<"emulator-5554">>)}
    /\ pc = "idle"
    /\ call = NoCall
    /\ hist = <<>>
    /\ trace = <<>>
    /\ procs = <<>>
    /\ response = NoResponse
    /\ pending = <<>>
    /\ log = <<>>

\* what the handler of the call in progress does next
Step ==
    IF call.entry = "call_tool" THEN call_tool(call.name, call.arguments, hist)
    ELSE IF call.entry = "list_tools" THEN Ret(List(list_tools), 0)
    ELSE ADBClient(call.name, call.arguments, hist)

\* the handler of a call of call_tool has done e
Logged(e) == log' = IF call.entry = "call_tool" THEN Append(log, e) ELSE log

\* a call begins; the server's channel is the one server.py constructs, ADBClient()
Begin(req) ==
    /\ pc = "idle"
    /\ pending = <<>>
    /\ log' = IF req.entry = "call_tool" THEN Append(log, [kind |-> "begin"]) ELSE log
    /\ UNCHANGED pending
    /\ req.entry \in {"call_tool", "list_tools"} => device_serial = None
    /\ call' = req
    /\ pc' = "running"
    /\ hist' = <<>>
    /\ trace' = <<>>
    /\ procs' = <<>>
    /\ response' = NoResponse
    /\ UNCHANGED device_serial

CallTool == \E req \in ListedRequests \cup UnlistedRequests : Begin(req)

CallMethod == \E req \in MethodRequests : Begin(req)

\* the client asks the server for its catalog
ListTools == Begin([entry |-> "list_tools", name |-> "list_tools", arguments |-> EmptyDict])

\* subprocess.run starts the process of the invocation the handler issues
Spawn ==
    /\ pc = "running"
    /\ Step.kind = "invoke"
    /\ trace' = Append(trace, Step.cmd)
    /\ procs' = Append(procs, "running")
    /\ pc' = "waiting"
    /\ Logged([kind |-> "invoke", cmd |-> Step.cmd])
    /\ UNCHANGED <<device_serial, call, hist, response, pending>>

\* subprocess.run cannot start the process: adb is not found or not executable
StartFail ==
    /\ pc = "running"
    /\ Step.kind = "invoke"
    /\ trace' = Append(trace, Step.cmd)
    /\ procs' = Append(procs, "failed")
    /\ hist' = Append(hist, [kind |-> "raise", exc |-> "FileNotFoundError"])
    /\ log' = IF call.entry = "call_tool"
              THEN log \o <<[kind |-> "invoke", cmd |-> Step.cmd], [kind |-> "over"]>>
              ELSE log
    /\ UNCHANGED <<device_serial, pc, call, response, pending>>

\* the process exits within the timeout
ProcExit ==
    /\ pc = "waiting"
    /\ \E o \in Outcomes(trace[Len(trace)]) :
          hist' = Append(hist, [kind |-> "exit", code |-> o.code, stdout |-> o.stdout,
                                stderr |-> o.stderr])
    /\ procs' = [procs EXCEPT ![Len(procs)] = "exited"]
    /\ pc' = "running"
    /\ Logged([kind |-> "over"])
    /\ UNCHANGED <<device_serial, call, trace, response, pending>>

\* a variant of ProcTimeout that raises and leaves the process running: the statement
\* C7 tells the two apart
ProcTimeoutNoKill ==
    /\ pc = "waiting"
    /\ hist' = Append(hist, [kind |-> "raise", exc |-> "TimeoutExpired"])
    /\ pc' = "running"
    /\ Logged([kind |-> "over"])
    /\ UNCHANGED <<device_serial, call, trace, procs, response, pending>>

\* the process is still running when the timeout expires: subprocess.run kills it,
\* waits for it and raises TimeoutExpired
ProcTimeout ==
    /\ pc = "waiting"
    /\ procs' = [procs EXCEPT ![Len(procs)] = "killed"]
    /\ hist' = Append(hist, [kind |-> "raise", exc |-> "TimeoutExpired"])
    /\ pc' = "running"
    /\ Logged([kind |-> "over"])
    /\ UNCHANGED <<device_serial, call, trace, response, pending>>

\* a variant of Return where the channel drops its target when the operation fails
\* with an exception: the statement C18 tells the two apart
ReturnDropsTarget ==
    /\ pc = "running"
    /\ Step.kind \in {"ret", "raise"}
    /\ response' = IF Step.kind = "ret" THEN [kind |-> "ret", val |-> Step.val]
                   ELSE [kind |-> "raise", exc |-> Step.exc]
    /\ device_serial' = IF Step.kind = "raise" THEN None ELSE device_serial
    /\ pc' = "done"
    /\ Logged([kind |-> "end"])
    /\ UNCHANGED <<call, hist, trace, procs, pending>>

\* the handler returns or raises
Return ==
    /\ pc = "running"
    /\ Step.kind \in {"ret", "raise"}
    /\ response' = IF Step.kind = "ret" THEN [kind |-> "ret", val |-> Step.val]
                   ELSE [kind |-> "raise", exc |-> Step.exc]
    /\ pc' = "done"
    /\ Logged([kind |-> "end"])
    /\ UNCHANGED <<device_serial, call, hist, trace, procs, pending>>

\* the caller has the outcome; the channel keeps nothing of the call but its target
Deliver ==
    /\ pc = "done"
    /\ pc' = "idle"
    /\ call' = NoCall
    /\ hist' = <<>>
    /\ trace' = <<>>
    /\ procs' = <<>>
    /\ response' = NoResponse
    /\ log' = IF pending = <<>> THEN <<>> ELSE log
    /\ UNCHANGED <<device_serial, pending>>

\* the most requests the model lets follow the first, while the server is never
\* without one
MaxPending == 1

\* the requests the model lets wait at the server while another is served
QueuedRequests ==
    {[entry |-> "call_tool", name |-> "get_ui_hierarchy", arguments |-> EmptyDict],
     [entry |-> "call_tool", name |-> "tap",
      arguments |-> DictSet(DictSet(EmptyDict, "x", IntV(100)), "y", IntV(200))]}

\* the client sends a request while the handler of another is running: the request
\* waits, the event loop being held by the handler
Receive ==
    /\ pc \in {"running", "waiting"}
    /\ call \in QueuedRequests
    /\ Len(SelectSeq(log, LAMBDA e : e.kind = "begin")) + Len(pending) <= MaxPending
    /\ \E req \in QueuedRequests : pending' = Append(pending, req)
    /\ UNCHANGED <<device_serial, pc, call, hist, trace, procs, response, log>>

\* a variant of Dequeue where the handler of the next request starts while the handler
\* being served waits for its process, as it would were the process awaited: the
\* statement C27 tells the two apart
DequeueAtWait ==
    /\ pc \in {"idle", "waiting"}
    /\ pending # <<>>
    /\ call' = Head(pending)
    /\ pending' = Tail(pending)
    /\ pc' = "running"
    /\ hist' = <<>>
    /\ trace' = <<>>
    /\ procs' = <<>>
    /\ response' = NoResponse
    /\ log' = Append(log, [kind |-> "begin"])
    /\ UNCHANGED device_serial

\* the event loop is free: call_tool, which has no await, has returned, and the handler
\* of the request that waited longest starts
Dequeue ==
    /\ pc = "idle"
    /\ pending # <<>>
    /\ call' = Head(pending)
    /\ pending' = Tail(pending)
    /\ pc' = "running"
    /\ hist' = <<>>
    /\ trace' = <<>>
    /\ procs' = <<>>
    /\ response' = NoResponse
    /\ log' = Append(log, [kind |-> "begin"])
    /\ UNCHANGED device_serial

Next ==
    \/ CallTool \/ CallMethod \/ ListTools \/ Spawn \/ StartFail \/ ProcExit \/ ProcTimeout \/ Return
    \/ Deliver \/ Receive \/ Dequeue

Spec == Init /\ [][Next]_vars

-----------------------------------------------------------------------------
(* The statements checked, part 1: dispatch and unknown operations *)

\* the names of the catalog
ListedNames == {list_tools[i].name : i \in 1..Len(list_tools)}

\* the parameters the schema of a listed operation requires
RequiredOf(n) == list_tools[CHOOSE i \in 1..Len(list_tools) : list_tools[i].name = n].required

\* every invocation of the call so far ran to its exit
AllExited == \A i \in 1..Len(hist) : hist[i].kind = "exit"

\* the call in progress is call_tool(n, ...)
Dispatched(n) == call.entry = "call_tool" /\ call.name = n

\* the call in progress is the channel operation m, called directly
Method(m) == call.entry = "ADBClient" /\ call.name = m

\* the call has returned the value v of the channel
Returned(v) == pc = "done" /\ response.kind = "ret" /\ response.val = v

\* the call has ended with the exception exc
Raised(exc) == pc = "done" /\ response.kind = "raise" /\ response.exc = exc

\* C1: a call of call_tool with a name of the catalog, whatever its parameters and
\* whatever the bridge tool does, ends with a response envelope and never with an
\* exception.
C1_NeverPropagates ==
    (pc = "done" /\ call.entry = "call_tool" /\ call.name \in ListedNames)
        => response.kind = "ret"

\* C2: a call of call_tool with a name that is not in the catalog issues no bridge
\* invocation, and ends by returning one text that says the tool is unknown and names it.
C2_UnknownOperation ==
    (call.entry = "call_tool" /\ call.name \notin ListedNames)
        => /\ trace = <<>>
           /\ procs = <<>>
           /\ pc # "waiting"
           /\ pc = "done" =>
                 /\ response.kind = "ret"
                 /\ Len(response.val) = 1
                 /\ response.val[1].type = "text"
                 /\ response.val[1].text.t = "str"
                 /\ {"Unknown tool: ", call.name} \subseteq Range(response.val[1].text.v)

\* an unlisted name, which is even the name of an operation of the channel, was
\* dispatched with parameters and answered
C2_Witness ==
    /\ pc = "done"
    /\ Dispatched("pinch")
    /\ DOMAIN call.arguments = {"x", "y"}
    /\ response.kind = "ret"

\* C3: a call of call_tool that lacks a parameter the schema of the operation requires
\* ends with a response envelope, and no bridge invocation is issued for it.
C3_MissingRequiredRejected ==
    (pc = "done" /\ call.entry = "call_tool" /\ call.name \in ListedNames
     /\ ~(RequiredOf(call.name) \subseteq DOMAIN call.arguments))
        => (response.kind = "ret" /\ trace = <<>>)

-----------------------------------------------------------------------------
(* The statements checked, part 2: the retrieval of the UI hierarchy *)

\* the call in progress retrieves the UI hierarchy, directly or through the dispatch
Hierarchy == call.name = "get_ui_hierarchy" /\ call.entry \in {"call_tool", "ADBClient"}

\* the i-th invocation of the call is the word w of the shell on the fixed dump path
OnDump(i, ws) == adb_args(trace[i]) = Words(<<"shell">> \o ws) \o <<device_path_dump>>

\* the i-th invocation of the call ran to its exit, with status 0
ExitedZero(i) == Len(hist) >= i /\ hist[i].kind = "exit" /\ hist[i].code = 0

\* the i-th invocation of the call ran to its exit, with another status
ExitedNonZero(i) == Len(hist) >= i /\ hist[i].kind = "exit" /\ hist[i].code # 0

\* C4: when the dump invocation has exited with status 0 and the retrieval has ended,
\* every invocation having run to its exit, the delete invocation of the dump path has
\* been issued.
C4_DeleteAfterDump ==
    (pc = "done" /\ Hierarchy /\ AllExited /\ ExitedZero(1))
        => \E i \in 1..Len(trace) : OnDump(i, <<"rm">>)

\* C5: the invocations of a retrieval are, in this order, the dump, the read and the
\* delete of the dump path; and when the dump invocation exits with another status than
\* 0 neither of the other two is issued and the operation returns no result.
C5_DumpFailedNothingElse ==
    Hierarchy =>
        /\ Len(trace) <= 3
        /\ Len(trace) >= 1 => OnDump(1, <<"uiautomator", "dump">>)
        /\ Len(trace) >= 2 => OnDump(2, <<"cat">>)
        /\ Len(trace) >= 3 => OnDump(3, <<"rm">>)
        /\ ExitedNonZero(1) =>
              /\ Len(trace) = 1
              /\ pc \in {"running", "done"}
              /\ (pc = "done" /\ call.entry = "ADBClient") => Returned(None)
              /\ (pc = "done" /\ call.entry = "call_tool") =>
                    Returned(text_result(<<"Error: Failed to get UI hierarchy">>))

\* the dump invocation has exited with another status than 0 and the operation has
\* returned no result
C5_Witness ==
    /\ Method("get_ui_hierarchy")
    /\ ExitedNonZero(1)
    /\ Returned(None)

\* C6: when the dump and the read invocation have exited with status 0 and the delete
\* invocation has exited, with any status, the retrieval returns the output of the read
\* invocation as text; the one output it cannot return is one that is no UTF-8 text,
\* for which it raises, again whatever the status of the delete invocation.
C6_DeleteStatusIgnored ==
    (pc = "done" /\ Method("get_ui_hierarchy") /\ ExitedZero(1) /\ ExitedZero(2)
     /\ Len(hist) = 3 /\ hist[3].kind = "exit")
        => IF Decodable(hist[2].stdout)
           THEN response.kind = "ret" /\ response.val = Str(hist[2].stdout)
           ELSE Raised("UnicodeDecodeError")

\* the delete invocation has failed and the hierarchy read before it is returned
C6_Witness ==
    /\ Method("get_ui_hierarchy")
    /\ ExitedZero(1) /\ ExitedZero(2) /\ ExitedNonZero(3)
    /\ Returned(Str(<<"a", "\n">>))

-----------------------------------------------------------------------------
(* The statements checked, part 3: timeouts, escapes, capture and enumeration *)

\* the invocations of the call go through _run_adb: wait_for_device alone runs its
\* process itself
ThroughRunAdb == call.name # "wait_for_device"

\* C7: a process that has not exited when the timeout expires is killed, and no process
\* of the call is running once subprocess.run is over; the invocation fails with
\* TimeoutExpired, which ends every call that made it through _run_adb, whereas
\* wait_for_device, which runs its process itself, returns False.
C7_TimeoutKills ==
    /\ pc \in {"running", "done"} => \A i \in 1..Len(procs) : procs[i] # "running"
    /\ \A i \in 1..Len(hist) :
          (hist[i].kind = "raise" /\ hist[i].exc = "TimeoutExpired") <=> procs[i] = "killed"
    /\ \A i \in 1..Len(procs) :
          (pc = "done" /\ procs[i] = "killed")
              => IF ThroughRunAdb THEN Raised("TimeoutExpired")
                 ELSE Returned(Bool(FALSE))

\* the third invocation of a call timed out: its process was killed and the call ended
\* with the timeout error
C7_Witness ==
    /\ Raised("TimeoutExpired")
    /\ Len(procs) = 3
    /\ procs[3] = "killed"

\* C8: a channel operation called directly, every invocation of which ran to its exit,
\* returns: it ends with no exception, whatever the invocations printed.
C8_OnlyExecuteFailuresEscape ==
    (pc = "done" /\ call.entry = "ADBClient" /\ AllExited) => response.kind = "ret"

\* C9: screenshot returns the captured bytes when the invocation exits with status 0
\* and has printed something, and None otherwise; through the dispatch the first gives
\* one image and the second one text, the error message, never an image.
C9_ScreenshotNeedsBytes ==
    (pc = "done" /\ Len(hist) = 1 /\ hist[1].kind = "exit") =>
        LET captured == hist[1].code = 0 /\ hist[1].stdout # <<>>
        IN  /\ Method("screenshot") =>
                /\ response.kind = "ret"
                /\ response.val.t = "bytes" <=> captured
                /\ captured => response.val = Bytes(hist[1].stdout)
                /\ ~captured => response.val = None
            /\ Dispatched("get_screenshot") =>
                /\ response.kind = "ret"
                /\ Len(response.val) = 1
                /\ response.val[1].type = "image" <=> captured
                /\ ~captured =>
                      response.val = text_result(<<"Error: Failed to capture screenshot">>)

\* the capture exited with status 0 and printed nothing: the dispatch answered with the
\* error text
C9_Witness ==
    /\ pc = "done"
    /\ Dispatched("get_screenshot")
    /\ ExitedZero(1)
    /\ hist[1].stdout = <<>>
    /\ response.val[1].type = "text"

\* the lines of the listing get_devices reads: its output without the white space
\* around it, cut at the line ends
ListingLines(out) == split(strip(out), <<"\n">>)

\* the lines after the first that have two fields or more, by their place
Rows(out) == {i \in 2..Len(ListingLines(out)) : Len(split_ws(ListingLines(out)[i])) >= 2}

\* the lines after the first that are not blank, by their place
NonBlank(out) == {i \in 2..Len(ListingLines(out)) : strip(ListingLines(out)[i]) # <<>>}

\* the k-th smallest member of the set of places S
Nth(S, k) == CHOOSE i \in S : Cardinality({j \in S : j < i}) = k - 1

\* C10 as the specification states it: get_devices returns the empty list when the
\* listing exits with another status than 0, and otherwise one entry for each line
\* after the first that is not blank.
C10_EntryPerNonBlankLine ==
    (pc = "done" /\ Method("get_devices") /\ Len(hist) = 1 /\ hist[1].kind = "exit"
     /\ Decodable(hist[1].stdout))
        => /\ response.kind = "ret"
           /\ response.val.t = "list"
           /\ Len(response.val.v) = IF hist[1].code # 0 THEN 0
                                    ELSE Cardinality(NonBlank(hist[1].stdout))

\* C10, amended: get_devices returns the empty list when the listing exits with another
\* status than 0 and when it prints the header alone; otherwise it returns one entry,
\* the first field as serial and the second as state, for each line after the first
\* that has two fields or more, in the order of the output, and none for the other
\* lines; an output that is no UTF-8 text is not read as a listing, the operation raises.
C10_EntryPerTwoFieldLine ==
    (pc = "done" /\ Method("get_devices") /\ Len(hist) = 1 /\ hist[1].kind = "exit")
        => LET out == hist[1].stdout
           IN  IF hist[1].code # 0 THEN Returned(List(<<>>))
               ELSE IF ~Decodable(out) THEN Raised("UnicodeDecodeError")
               ELSE /\ response.kind = "ret"
                    /\ response.val.t = "list"
                    /\ Len(response.val.v) = Cardinality(Rows(out))
                    /\ \A k \in 1..Len(response.val.v) :
                          LET parts == split_ws(ListingLines(out)[Nth(Rows(out), k)])
                          IN  response.val.v[k] = [serial |-> parts[1], state |-> parts[2]]
                    /\ out = DevicesHeader \o <<"\n">> => response.val.v = <<>>

\* a listing of two devices with a line of one field between them: two entries, in the
\* order of the output
C10_Witness ==
    /\ Method("get_devices")
    /\ ExitedZero(1)
    /\ Cardinality(NonBlank(hist[1].stdout)) = 3
    /\ Returned(List(<<[serial |-> <<"a">>, state |-> <<"device">>],
                       [serial |-> <<"c">>, state |-> <<"offline">>]>>))

-----------------------------------------------------------------------------
(* The statements checked, part 4: device properties *)

\* the keys of the result of get_device_info, in the order of its sub-queries
InfoKeys ==
    <<"model", "android_version", "sdk_version", "screen_size", "screen_density",
      "manufacturer">>

\* the arguments of the sub-queries, in the same order
InfoCommands ==
    <<Words(<<"shell", "getprop", "ro.product.model">>),
      Words(<<"shell", "getprop", "ro.build.version.release">>),
      Words(<<"shell", "getprop", "ro.build.version.sdk">>),
      Words(<<"shell", "wm", "size">>),
      Words(<<"shell", "wm", "density">>),
      Words(<<"shell", "getprop", "ro.product.manufacturer">>)>>

\* an invocation of the call exited with status 0 having printed what is no UTF-8 text
SomeUndecodable ==
    \E i \in 1..Len(hist) :
        hist[i].kind = "exit" /\ hist[i].code = 0 /\ ~Decodable(hist[i].stdout)

\* the i-th sub-query gave a value: it exited with status 0 and, for the two queries
\* of the window manager, printed a colon
QueryGave(i) ==
    /\ hist[i].code = 0
    /\ i \in {4, 5} => ":" \in Range(hist[i].stdout)

\* C11 as the specification states it: get_device_info, every invocation of which ran
\* to its exit, returns a map that has a key exactly for the sub-queries that exited
\* with status 0.
C11_KeyPerExitZero ==
    (pc = "done" /\ Method("get_device_info") /\ AllExited /\ ~SomeUndecodable)
        => /\ response.kind = "ret"
           /\ response.val.t = "dict"
           /\ DOMAIN response.val.v = {InfoKeys[i] : i \in {j \in 1..Len(hist) : hist[j].code = 0}}

\* C11, amended: get_device_info issues its six sub-queries in order whatever their
\* exit statuses, and returns a map that has a key exactly for the sub-queries that
\* exited with status 0 and, for screen size and screen density, printed a colon; the
\* value of a property is the output without the white space around it, for the two
\* screen queries what follows the last colon.  An output with status 0 that is no
\* UTF-8 text is not read: the operation raises.
C11_KeyPerAnsweredQuery ==
    (pc = "done" /\ Method("get_device_info") /\ AllExited)
        => IF SomeUndecodable THEN Raised("UnicodeDecodeError")
           ELSE /\ Len(trace) = 6
                /\ \A i \in 1..6 : adb_args(trace[i]) = InfoCommands[i]
                /\ response.kind = "ret"
                /\ response.val.t = "dict"
                /\ DOMAIN response.val.v = {InfoKeys[i] : i \in {j \in 1..6 : QueryGave(j)}}
                /\ \A i \in {1, 2, 3, 6} :
                      QueryGave(i) => response.val.v[InfoKeys[i]] = strip(hist[i].stdout)
                /\ \A i \in {4, 5} :
                      QueryGave(i) =>
                          \E k \in 1..Len(hist[i].stdout) :
                              /\ hist[i].stdout[k] = ":"
                              /\ \A j \in (k + 1)..Len(hist[i].stdout) : hist[i].stdout[j] # ":"
                              /\ response.val.v[InfoKeys[i]]
                                    = strip(SubSeq(hist[i].stdout, k + 1, Len(hist[i].stdout)))

\* the query of the model exited with status 0 and the query of the manufacturer with
\* another: the call returned a map with the first key and without the second
C11_Witness ==
    /\ pc = "done"
    /\ Method("get_device_info")
    /\ ExitedZero(1)
    /\ ExitedNonZero(6)
    /\ response.kind = "ret"
    /\ "model" \in DOMAIN response.val.v
    /\ "manufacturer" \notin DOMAIN response.val.v

-----------------------------------------------------------------------------
(* The statements checked, part 5: notifications *)

\* the entry get_notifications is to return for the i-th record of a dump
NotificationEntry(i) ==
    [package |-> <<"com", ".", "n">> \o str(i),
     title |-> <<"String", " ", "(", "t">> \o str(i) \o <<")">>,
     text |-> <<"String", " ", "(", "x">> \o str(i) \o <<")">>]

\* C12: on a dump of n well-formed records get_notifications returns min(n, 20)
\* entries, those of the first min(n, 20) records in the order of the dump, each with
\* the package, the title and the text of its own record.
C12_FirstTwentyRecords ==
    \A n \in 0..MaxRecords :
        (pc = "done" /\ Method("get_notifications") /\ ExitedZero(1)
         /\ hist[1].stdout = NotificationDump(n))
            => /\ response.kind = "ret"
               /\ response.val.t = "list"
               /\ Len(response.val.v) = (IF n < 20 THEN n ELSE 20)
               /\ \A k \in 1..Len(response.val.v) : response.val.v[k] = NotificationEntry(k)

\* a dump of 25 records was read and 20 entries were returned
C12_Witness ==
    /\ pc = "done"
    /\ Method("get_notifications")
    /\ ExitedZero(1)
    /\ hist[1].stdout = NotificationDump(25)
    /\ response.kind = "ret"
    /\ Len(response.val.v) = 20

-----------------------------------------------------------------------------
(* The statements checked, part 6: text input and the shell *)

\* the places of the text t before place i that hold the character c
Before(t, c, i) == Cardinality({j \in 1..(i - 1) : t[j] = c})

\* e is t with the text r at the place of every c and every other character as it is
Substituted(t, c, r, e) ==
    /\ Len(e) = Len(t) + (Len(r) - 1) * Before(t, c, Len(t) + 1)
    /\ \A i \in 1..Len(t) :
          LET at == i + (Len(r) - 1) * Before(t, c, i)
          IN  IF t[i] = c THEN SubSeq(e, at, at + Len(r) - 1) = r ELSE e[at] = t[i]

\* C13: input_text issues one invocation, "shell input text" with one more argument,
\* which is the text with "%s" for every space and every other character unchanged.
C13_SpacesEscaped ==
    (call.name = "input_text" /\ "text" \in DOMAIN call.arguments)
        => /\ Len(trace) <= 1
           /\ pc = "done" => Len(trace) = 1
           /\ Len(trace) = 1 =>
                 /\ Len(adb_args(trace[1])) = 4
                 /\ is_cmd(adb_args(trace[1]), <<"shell", "input", "text">>)
                 /\ Substituted(call.arguments["text"].v, " ", <<"%", "s">>, adb_args(trace[1])[4])

\* "hello world" was passed and the invocation had the argument "hello%sworld"
C13_Witness ==
    /\ pc = "done"
    /\ Method("input_text")
    /\ call.arguments["text"] = Str(<<"hello", " ", "world">>)
    /\ adb_args(trace[1])[4] = <<"hello", "%", "s", "world">>
    /\ Returned(Bool(TRUE))

\* the words a POSIX shell reads in the text w from place i on, cur being the word in
\* progress, if any: between single quotes every character stands for itself, outside
\* them a backslash makes the next character stand for itself and white space ends a
\* word; <<"<open>">> is read where a quote or a backslash is left open
RECURSIVE sh_words(_, _, _, _)
sh_words(w, i, quoted, cur) ==
    LET with(c) == IF cur = <<>> THEN <<<<c>>>> ELSE <<cur[1] \o <<c>>>>
    IN  IF i > Len(w) THEN (IF quoted THEN cur \o <<<<"<open>">>>> ELSE cur)
        ELSE IF quoted
        THEN IF w[i] = "'" THEN sh_words(w, i + 1, FALSE, cur)
             ELSE sh_words(w, i + 1, TRUE, with(w[i]))
        ELSE IF w[i] = "'" THEN sh_words(w, i + 1, TRUE, IF cur = <<>> THEN <<<<>>>> ELSE cur)
        ELSE IF w[i] = "\\"
        THEN IF i = Len(w) THEN cur \o <<<<"<open>">>>>
             ELSE sh_words(w, i + 2, FALSE, with(w[i + 1]))
        ELSE IF w[i] \in Whitespace THEN cur \o sh_words(w, i + 1, FALSE, <<>>)
        ELSE sh_words(w, i + 1, FALSE, with(w[i]))

\* the run-as-elevated flag of the call in progress: False when the dispatch gets none
Elevated ==
    IF "as_root" \in DOMAIN call.arguments THEN call.arguments["as_root"].v ELSE FALSE

\* C14: shell_command issues "shell" with one more argument.  With the elevated flag
\* this is "su -c " and the command between single quotes with '\'' for every single
\* quote of it, a word that a shell reads back as the command; without the flag it is
\* the command as it is.
C14_ElevatedQuoting ==
    (call.name = "shell_command" /\ "command" \in DOMAIN call.arguments /\ Len(trace) >= 1)
        => LET a == adb_args(trace[1])
               command == call.arguments["command"].v
               word == SubSeq(a[2], 5, Len(a[2]))
           IN  /\ Len(trace) = 1
               /\ Len(a) = 2
               /\ a[1] = <<"shell">>
               /\ ~Elevated => a[2] = command
               /\ Elevated =>
                     /\ SubSeq(a[2], 1, 4) = <<"su", " ", "-c", " ">>
                     /\ Len(word) >= 2 /\ word[1] = "'" /\ word[Len(word)] = "'"
                     /\ Substituted(command, "'", <<"'", "\\", "'", "'">>,
                                    SubSeq(word, 2, Len(word) - 1))
                     /\ sh_words(word, 1, FALSE, <<>>) = <<command>>

\* a command that ends with a single quote after a backslash ran elevated
C14_Witness ==
    /\ pc = "done"
    /\ Method("shell_command")
    /\ call.arguments["command"] = Str(<<"a", "\\", "'">>)
    /\ call.arguments["as_root"] = Bool(TRUE)
    /\ Len(trace) = 1
    /\ response.kind = "ret"

\* what base64 -d makes of the text cs of whole groups of four base64 characters
RECURSIVE b64decode(_)
b64decode(cs) ==
    IF cs = <<>> THEN <<>>
    ELSE LET val(c) == (CHOOSE k \in 1..64 : B64Chars[k] = c) - 1
             first == val(cs[1]) * 4 + val(cs[2]) \div 16
         IN  IF cs[3] = "=" THEN <<first>>
             ELSE IF cs[4] = "=" THEN <<first, (val(cs[2]) % 16) * 16 + val(cs[3]) \div 4>>
             ELSE <<first, (val(cs[2]) % 16) * 16 + val(cs[3]) \div 4,
                    (val(cs[3]) % 4) * 64 + val(cs[4])>>
                  \o b64decode(SubSeq(cs, 5, Len(cs)))

\* cs is a base64 text: groups of four characters of the alphabet, the last group
\* padded with one or two "="
IsBase64(cs) ==
    /\ Len(cs) % 4 = 0
    /\ \A i \in 1..Len(cs) :
          \/ \E k \in 1..64 : B64Chars[k] = cs[i]
          \/ cs[i] = "=" /\ i > Len(cs) - 2 /\ (i = Len(cs) \/ cs[Len(cs)] = "=")

\* the command line the device runs for the argument arg of "shell": the word after
\* "su -c" when the call is elevated, arg itself when it is not
RemoteScript(arg) ==
    IF Elevated
    THEN LET ws == sh_words(arg, 1, FALSE, <<>>)
         IN  IF Len(ws) = 3 /\ ws[1] = <<"su">> /\ ws[2] = <<"-c">> THEN ws[3]
             ELSE <<"<open>">>
    ELSE arg

\* C15: write_file issues one shell invocation whose command line the device reads as
\* echo <text> | base64 -d > <device_path>, where <text> is a base64 text that decodes
\* to the UTF-8 bytes of the content, with the elevated flag and without it.
C15_WriteRoundTrip ==
    (/\ call.name = "write_file"
     /\ {"device_path", "content"} \subseteq DOMAIN call.arguments
     /\ Len(trace) >= 1)
        => LET a == adb_args(trace[1])
               ws == sh_words(RemoteScript(a[2]), 1, FALSE, <<>>)
           IN  /\ Len(trace) = 1
               /\ Len(a) = 2
               /\ a[1] = <<"shell">>
               /\ Len(ws) = 7
               /\ ws[1] = <<"echo">>
               /\ <<ws[3], ws[4], ws[5], ws[6]>> = <<<<"|">>, <<"base64">>, <<"-d">>, <<">">>>>
               /\ ws[7] = call.arguments["device_path"].v
               /\ IsBase64(ws[2])
               /\ b64decode(ws[2]) = encode_utf8(call.arguments["content"].v)

\* a content of a single quote, a newline and a character of two bytes was written
\* elevated, and the write succeeded
C15_Witness ==
    /\ Method("write_file")
    /\ call.arguments["content"] = Str(<<"'", "\n", "<e-acute>">>)
    /\ call.arguments["as_root"] = Bool(TRUE)
    /\ Len(trace) = 1
    /\ Returned(Bool(TRUE))

-----------------------------------------------------------------------------
(* The statements checked, part 7: the foreground app *)

\* the token has both "/" and "."
IsComponent(token) == contains(token, <<"/">>) /\ contains(token, <<".">>)

\* the line has a focus marker and a token with both "/" and "."
LineParses(line) ==
    /\ contains(line, <<"mCurrentFocus">>) \/ contains(line, <<"mFocusedApp">>)
    /\ \E j \in 1..Len(split_ws(line)) : IsComponent(split_ws(line)[j])

\* the package and the activity of a token: the text before its first "/", and the text
\* after it up to the next "/" or to the end without the closing braces
ComponentOf(token) ==
    LET slashes == {k \in 1..Len(token) : token[k] = "/"}
        first == CHOOSE k \in slashes : \A m \in slashes : k <= m
        braces == {k \in 1..Len(token) : \A m \in k..Len(token) : token[m] = "}"}
        last == Len(token) - Cardinality(braces)
        stop == IF \E k \in slashes : k > first
                THEN (CHOOSE k \in slashes : k > first /\ \A m \in slashes : m > first => k <= m) - 1
                ELSE last
    IN  Dict([package |-> SubSeq(token, 1, first - 1),
              activity |-> SubSeq(token, first + 1, stop)])

\* C16: get_current_app issues one dump.  On a dump that exited with 0 and decodes it
\* returns the package and the activity of the first token with both "/" and "." of the
\* first line that has a focus marker and such a token, whatever the later lines hold,
\* and None when no line is such; on a dump that exited with another status it returns
\* None.  (A dump that does not decode raises UnicodeDecodeError.)
C16_FirstParsingLine ==
    (pc = "done" /\ Method("get_current_app") /\ Len(hist) >= 1 /\ hist[1].kind = "exit")
        => /\ Len(trace) = 1
           /\ ExitedNonZero(1) => Returned(None)
           /\ (ExitedZero(1) /\ ~Decodable(hist[1].stdout)) => Raised("UnicodeDecodeError")
           /\ (ExitedZero(1) /\ Decodable(hist[1].stdout)) =>
                 LET lines == split(hist[1].stdout, <<"\n">>)
                     parsing == {k \in 1..Len(lines) : LineParses(lines[k])}
                 IN  IF parsing = {} THEN Returned(None)
                     ELSE LET k == CHOOSE k \in parsing : \A m \in parsing : k <= m
                              tokens == split_ws(lines[k])
                              j == CHOOSE j \in 1..Len(tokens) :
                                       /\ IsComponent(tokens[j])
                                       /\ \A m \in 1..(j - 1) : ~IsComponent(tokens[m])
                          IN  Returned(ComponentOf(tokens[j]))

\* a dump of a marker line that does not parse, a marker line with two components and
\* a marker line with another component: the first component of the second line came back
C16_Witness ==
    /\ Method("get_current_app")
    /\ ExitedZero(1)
    /\ hist[1].stdout =
          <<"mFocusedApp", "=", "b", " ", "a", "/", "b", " ", "c", ".", "d", "\n",
            "mFocusedApp", " ", "com", ".", "b", "/", ".", "B", "\t", "com", ".", "c", "/", ".", "C", "\n",
            " ", "mCurrentFocus", "=", "Window", "{", "1", " ", "u", "0", " ",
            "com", ".", "a", "/", "com", ".", "a", ".", "Main", "}", "\n">>
    /\ Returned(Dict([package |-> <<"com", ".", "b">>, activity |-> <<".", "B">>]))

-----------------------------------------------------------------------------
(* The statements checked, part 8: the catalog *)

\* the dispatch has a branch for the name: whatever the parameters, the call does
\* something else than the answer of the else branch
Handled(name, arguments) == call_tool(name, arguments, <<>>) # unknown_tool(name, <<>>)

\* C17: no two entries of the catalog have the same name, every call of list_tools
\* returns the same catalog, and a name that call_tool is called with has a branch of
\* the dispatch if and only if it is a name of the catalog.
C17_CatalogIsDispatch ==
    /\ \A i, j \in 1..Len(list_tools) : list_tools[i].name = list_tools[j].name => i = j
    /\ (pc = "done" /\ call.entry = "list_tools") => Returned(List(list_tools))
    /\ call.entry = "call_tool" =>
          /\ call.name \in ListedNames <=> Handled(call.name, call.arguments)
          /\ (pc = "done" /\ call.name \notin ListedNames)
                => Returned(unknown_tool(call.name, hist).val)
          /\ (pc = "done" /\ call.name \in ListedNames)
                => ~Returned(unknown_tool(call.name, hist).val)

\* a call of list_tools has returned the catalog of 46 entries, the name of the
\* last being one that the dispatch has a branch for
C17_Witness ==
    /\ pc = "done"
    /\ call.entry = "list_tools"
    /\ response.kind = "ret"
    /\ Len(response.val.v) = 46
    /\ Handled(response.val.v[46].name, EmptyDict)

-----------------------------------------------------------------------------
(* The statements checked, part 9: the channel *)

\* C18: no step of any operation changes the target of the channel, whether the
\* operation returns a value, raises TimeoutExpired or raises on a process that did
\* not start; the outcome of an operation is what its handler makes of the parameters
\* of the call and of the results of the invocations of this call; and once the caller
\* has the outcome the channel holds its target and nothing else, as after construction.
C18_TargetUnchanged ==
    [][/\ device_serial' = device_serial
       /\ pc' = "done" =>
             response' = IF Step.kind = "ret" THEN [kind |-> "ret", val |-> Step.val]
                         ELSE [kind |-> "raise", exc |-> Step.exc]
       /\ pc' = "idle" =>
             <<call', hist', trace', procs', response'>>
                 = <<NoCall, <<>>, <<>>, <<>>, NoResponse>>]_vars

\* on a channel with a target an operation has ended with TimeoutExpired after an
\* invocation that exited, and the target is there
C18_Witness ==
    /\ call.entry = "ADBClient"
    /\ Raised("TimeoutExpired")
    /\ Len(hist) >= 2
    /\ hist[1].kind = "exit"
    /\ device_serial = Str(<<"emulator-5554">>)

\* the command line cmd is adb -s <serial> <subcommand> ... on a channel with a target
\* and adb <subcommand> ... on a channel without one
Scoped(cmd) ==
    /\ Len(cmd) >= 2
    /\ cmd[1] = <<"adb">>
    /\ IF truthy(device_serial)
       THEN Len(cmd) >= 4 /\ cmd[2] = <<"-s">> /\ cmd[3] = device_serial.v
       ELSE cmd[2] # <<"-s">>

\* C19: every invocation of every operation of the channel, wait_for_device included,
\* has the command line adb -s <serial> <subcommand> [args...] when the channel has a
\* target and adb <subcommand> [args...] when it has none.
C19_ScopedToTarget == \A i \in 1..Len(trace) : Scoped(trace[i])

-----------------------------------------------------------------------------
(* The statements checked, part 10: the success/failure signal of the envelopes *)

\* the envelopes call_tool can return for the request req from the results h on when
\* every further invocation exits with a status that is zero (zero = TRUE) or with a
\* status that is not (zero = FALSE)
RECURSIVE Envelopes(_, _, _)
Envelopes(req, h, zero) ==
    LET s == call_tool(req.name, req.arguments, h)
    IN  IF s.kind = "invoke"
        THEN UNION {Envelopes(req, Append(h, [kind |-> "exit", code |-> o.code,
                                               stdout |-> o.stdout, stderr |-> o.stderr]), zero) :
                       o \in {o \in Outcomes(s.cmd) : (o.code = 0) = zero}}
        ELSE IF s.kind = "ret" THEN {s.val}
        ELSE {}

\* C20: the envelope an operation returns after invocations that all exited with a
\* non-zero status is none of the envelopes the same call returns after invocations
\* that all exited with status 0.
C20_FailureDistinguishable ==
    (/\ pc = "done"
     /\ call.entry = "call_tool"
     /\ response.kind = "ret"
     /\ Len(hist) >= 1
     /\ \A i \in 1..Len(hist) : ExitedNonZero(i))
        => response.val \notin Envelopes(call, <<>>, TRUE)

-----------------------------------------------------------------------------
(* The statements checked, part 11: no retries *)

\* what the handler of the call in progress does next on the results h
StepOn(h) ==
    IF call.entry = "call_tool" THEN call_tool(call.name, call.arguments, h)
    ELSE IF call.entry = "list_tools" THEN Ret(List(list_tools), 0)
    ELSE ADBClient(call.name, call.arguments, h)

\* the j-th invocation of the call is a retry of the i-th: the same command line,
\* issued after the i-th exited with a status other than 0, that would not have been
\* issued then had the i-th exited with status 0
IsRetry(i, j) ==
    /\ i < j
    /\ trace[i] = trace[j]
    /\ ExitedNonZero(i)
    /\ LET h0 == [k \in 1..(j - 1) |-> IF k = i THEN [hist[k] EXCEPT !.code = 0] ELSE hist[k]]
       IN  ~(StepOn(h0).kind = "invoke" /\ StepOn(h0).cmd = trace[j])

\* C21: a call issues at most seven invocations, none of them a retry of an earlier
\* one, and whenever the invocations issued so far are over the handler either issues
\* the next one or ends the call; so the call is over after at most seven invocations
\* that exited or timed out.
C21_NoRetries ==
    /\ Len(trace) <= 7
    /\ \A i, j \in 1..Len(trace) : ~IsRetry(i, j)
    /\ pc = "running" =>
          /\ Len(hist) = Len(trace)
          /\ Step.kind \in {"invoke", "ret", "raise"}
          /\ Step.kind = "invoke" => Len(trace) < 7
    /\ pc = "done" => Len(hist) = Len(trace)

\* a scroll without x has ended after seven invocations, the fourth of which, the
\* query of the screen size, exited with a status other than 0
C21_Witness ==
    /\ pc = "done"
    /\ Method("scroll_up")
    /\ Len(trace) = 7
    /\ ExitedNonZero(4)
    /\ response.kind = "ret"

-----------------------------------------------------------------------------
(* The statements checked, part 12: gestures *)

\* the call in progress is a scroll without a horizontal position: call_tool never
\* passes one
ScrollWithoutX ==
    /\ call.name \in {"scroll_up", "scroll_down"}
    /\ call.entry = "ADBClient" => call.arguments["x"] = None

\* the distance of the scroll in progress: 500 when call_tool gets none
ScrollDistance ==
    IF "distance" \in DOMAIN call.arguments THEN call.arguments["distance"].v ELSE 500

\* the width the fourth query of the call, the query of the screen size, yields: the
\* number before the "x" of the size after the last colon of its output; 0 when it
\* exited with another status than 0, printed no colon or printed no number there
WidthYielded ==
    LET parts == split(hist[4].stdout, <<":">>)
        width == split(strip(parts[Len(parts)]), <<"x">>)[1]
    IN  IF QueryGave(4) /\ int_ok(width) THEN int(width) ELSE 0

\* C22: a scroll without x, every invocation of which ran to its exit with an output
\* that decodes, issues the six queries of the device properties and then one swipe,
\* from (x, 1200) to (x, 1200 + distance) up and to (x, 1200 - distance) down in 300 ms,
\* x being half the width the size query yields and 540 when it yields none; and the
\* call returns the status of the swipe.
C22_ScrollFallsBack ==
    (pc = "done" /\ ScrollWithoutX /\ AllExited /\ ~SomeUndecodable)
        => LET x == IF WidthYielded > 0 THEN WidthYielded \div 2 ELSE 540
               y == IF call.name = "scroll_up" THEN 1200 + ScrollDistance
                    ELSE 1200 - ScrollDistance
           IN  /\ Len(trace) = 7
               /\ \A i \in 1..6 : adb_args(trace[i]) = InfoCommands[i]
               /\ adb_args(trace[7]) = Words(<<"shell", "input", "swipe">>)
                                       \o <<str(x), str(1200), str(x), str(y), str(300)>>
               /\ response.kind = "ret"
               /\ call.entry = "ADBClient" => response.val = Bool(hist[7].code = 0)

\* half of the distance d, rounded down
Half(d) == CHOOSE k \in 0..d : 2 * k <= d /\ d < 2 * k + 2

\* C23: pinch issues one invocation, a swipe of 300 ms at the height of the center
\* from the center less half the start distance to the center less half the end
\* distance, for a start distance above the end distance and for one below it alike,
\* and returns whether that swipe exited with status 0.
C23_PinchIsOneSwipe ==
    (Method("pinch") /\ Len(trace) >= 1)
        => LET a == call.arguments
               cy == str(a["center_y"].v)
           IN  /\ Len(trace) = 1
               /\ adb_args(trace[1]) =
                     Words(<<"shell", "input", "swipe">>)
                     \o <<str(a["center_x"].v - Half(a["start_distance"].v)), cy,
                          str(a["center_x"].v - Half(a["end_distance"].v)), cy, str(300)>>
               /\ (pc = "done" /\ AllExited) => Returned(Bool(hist[1].code = 0))

\* a pinch in from an odd start distance has returned that its swipe failed
C23_Witness ==
    /\ Method("pinch")
    /\ call.arguments["start_distance"] = IntV(75)
    /\ call.arguments["end_distance"] = IntV(60)
    /\ ExitedNonZero(1)
    /\ Returned(Bool(FALSE))

-----------------------------------------------------------------------------
(* The statements checked, part 13: the records of a notification dump *)

\* the places where the text p occurs in the line l
Places(l, p) == {i \in 1..(Len(l) - Len(p) + 1) : SubSeq(l, i, i + Len(p) - 1) = p}

\* the greatest number of a set of numbers that is not empty
Greatest(S) == CHOOSE m \in S : \A k \in S : k <= m

\* what follows the last p of the line l, without the white space around it
AfterLast(l, p) == strip(SubSeq(l, Greatest(Places(l, p)) + Len(p), Len(l)))

\* the kinds of lines: a marker line has pkg=; a title line has android.title= and is
\* no marker line; a text line has android.text= and is neither
IsMarker(l) == Places(l, <<"pkg", "=">>) # {}

IsTitle(l) == ~IsMarker(l) /\ Places(l, <<"android.title", "=">>) # {}

IsText(l) == ~IsMarker(l) /\ ~IsTitle(l) /\ Places(l, <<"android.text", "=">>) # {}

\* the marker line that started the record the i-th line belongs to: the last marker
\* line up to it, and 0 for the lines before the first marker line
StartOf(lines, i) ==
    LET before == {m \in 1..i : IsMarker(lines[m])}
    IN  IF before = {} THEN 0 ELSE Greatest(before)

\* the record started at the marker line m (0: the record of the lines before the
\* first marker line): the package the marker line names, the title of the last title
\* line and the text of the last text line that belong to it
RecordOf(lines, m) ==
    LET own == {i \in 1..Len(lines) : StartOf(lines, i) = m}
        named == IF m = 0 THEN {}
                 ELSE {k \in 1..Len(split_ws(lines[m])) :
                          startswith(split_ws(lines[m])[k], <<"pkg", "=">>)}
        titles == {i \in own : IsTitle(lines[i])}
        texts == {i \in own : IsText(lines[i])}
        keys == (IF named # {} THEN {"package"} ELSE {})
                \cup (IF titles # {} THEN {"title"} ELSE {})
                \cup (IF texts # {} THEN {"text"} ELSE {})
    IN  [k \in keys |->
            CASE k = "package" ->
                   LET part == split_ws(lines[m])[Greatest(named)]
                   IN  SubSeq(part, 3, Len(part))
              [] k = "title" -> AfterLast(lines[Greatest(titles)], <<"android.title", "=">>)
              [] k = "text" -> AfterLast(lines[Greatest(texts)], <<"android.text", "=">>)]

\* the records of the dump that are not empty, in the order in which they start
RecordsOf(lines) ==
    LET starts == {m \in 0..Len(lines) :
                      /\ m > 0 => IsMarker(lines[m])
                      /\ DOMAIN RecordOf(lines, m) # {}}
        at == [k \in 1..Cardinality(starts) |->
                  CHOOSE m \in starts : Cardinality({j \in starts : j < m}) = k - 1]
    IN  [k \in 1..Cardinality(starts) |-> RecordOf(lines, at[k])]

\* C24: on a dump that exited with 0 and decodes, get_notifications returns the first
\* twenty of these records: one record for every marker line, and one for the lines
\* before the first, each holding the title and the text of the lines between its own
\* marker line and the next, the empty records left out.
C24_RecordPerMarker ==
    (pc = "done" /\ Method("get_notifications") /\ ExitedZero(1) /\ Decodable(hist[1].stdout))
        => LET records == RecordsOf(split(hist[1].stdout, <<"\n">>))
           IN  /\ response.kind = "ret"
               /\ response.val = List(SubSeq(records, 1, IF Len(records) < 20 THEN Len(records)
                                                         ELSE 20))
               /\ \A k \in 1..Len(response.val.v) : DOMAIN response.val.v[k] # {}

\* a dump of a title line, a marker line that names no package, a text line and a
\* marker line that names one: three records came back, the first without a package,
\* the second with the text alone
C24_Witness ==
    /\ Method("get_notifications")
    /\ ExitedZero(1)
    /\ hist[1].stdout =
          <<" ", "android.title", "=", "t", " ", "\n",
            "Record", "(", "pkg", "=", "com", ".", "c", ")", "\n",
            " ", "android.text", "=", "x", "\n",
            "Record", " ", "pkg", "=", "com", ".", "a", " ", "pkg", "=", "com", ".", "b", ")", "\n">>
    /\ Returned(List(<<[title |-> <<"t">>], [text |-> <<"x">>],
                       [package |-> <<"com", ".", "b", ")">>]>>))

-----------------------------------------------------------------------------
(* The statements checked, part 14: the boolean results *)

\* the operations of the channel that return a bool after a single invocation; the
\* scrolls are among them when they are given their x
SingleBool ==
    {"tap", "swipe", "input_text", "press_key", "start_app", "stop_app", "clear_app_data",
     "uninstall_app", "push_file", "pull_file", "file_exists", "delete_file",
     "set_clipboard", "open_notification_panel", "close_notification_panel", "long_press",
     "pinch", "take_photo", "screen_record", "set_brightness", "set_volume", "write_file",
     "chmod", "chown", "open_url", "open_settings", "toggle_wifi", "reboot", "clear_logcat",
     "wait_for_device"}
    \cup (IF call.entry = "ADBClient" /\ ~ScrollWithoutX THEN {"scroll_up", "scroll_down"}
          ELSE {})

\* those of them that call_tool answers with success_result
SingleBoolTools ==
    {"tap", "swipe", "input_text", "press_key", "long_press", "start_app", "stop_app",
     "clear_app_data", "uninstall_app", "write_file", "chmod", "chown", "push_file",
     "pull_file", "delete_file", "open_notification_panel", "close_notification_panel",
     "open_settings", "open_url", "toggle_wifi", "set_brightness", "set_volume",
     "clear_logcat", "reboot", "screen_record"}

\* C25: an operation of the channel that returns a bool after a single invocation
\* issues that one invocation and, the invocation having run to its exit, returns True
\* if its exit status is 0 and False if it is not; the text call_tool answers with for
\* such an operation ends with Success in the first case and with Failed in the
\* second.
C25_TrueIffExitZero ==
    (pc = "done" /\ Len(hist) >= 1 /\ hist[1].kind = "exit")
        => /\ (call.entry = "ADBClient" /\ call.name \in SingleBool) =>
                 /\ Len(trace) = 1
                 /\ Returned(Bool(hist[1].code = 0))
           /\ (call.entry = "call_tool" /\ call.name \in SingleBoolTools) =>
                 /\ Len(trace) = 1
                 /\ response.kind = "ret"
                 /\ Len(response.val) = 1
                 /\ LET text == response.val[1].text.v
                    IN  text[Len(text)] = IF hist[1].code = 0 THEN "Success" ELSE "Failed"

\* reboot, called through call_tool, exited with a status other than 0 and the answer
\* ends with Failed
C25_Witness ==
    /\ pc = "done"
    /\ Dispatched("reboot")
    /\ ExitedNonZero(1)
    /\ response.kind = "ret"
    /\ response.val[1].text.v[Len(response.val[1].text.v)] = "Failed"

-----------------------------------------------------------------------------
(* The statements checked, part 15: empty results through the dispatch *)

\* the operations whose text the dispatch replaces by an error text when it is empty
TextTools == {"read_file", "get_ui_hierarchy", "get_prop", "get_logcat"}

\* the invocation of the call in progress whose output is the result: the second, the
\* read of the dump, for get_ui_hierarchy and the first for the others
Deciding == IF call.name = "get_ui_hierarchy" THEN 2 ELSE 1

\* every invocation up to the deciding one exited with status 0
DecidingExitedZero == \A i \in 1..Deciding : ExitedZero(i)

\* the error text of the dispatch for the operation in progress
ErrorText ==
    CASE call.name = "read_file" -> <<"Error: Failed to read file">>
      [] call.name = "get_ui_hierarchy" -> <<"Error: Failed to get UI hierarchy">>
      [] call.name = "get_prop" -> <<"Error: Property not found">>
      [] call.name = "get_logcat" -> <<"Error: Failed to get logcat">>

\* C26: call_tool answers read_file, get_ui_hierarchy, get_prop and get_logcat, every
\* invocation of which ran to its exit, with the error text of the operation when the
\* deciding invocation exited with another status than 0 or printed nothing (for
\* get_prop: nothing but white space), the same text in both cases, and with what it
\* printed otherwise (for get_prop: "<name> = " and what it printed, stripped).
C26_EmptyIsError ==
    (/\ pc = "done"
     /\ call.entry = "call_tool"
     /\ call.name \in TextTools
     /\ call.name \in {"read_file", "get_prop"} => Len(hist) >= 1
     /\ AllExited
     /\ DecidingExitedZero => Decodable(hist[Deciding].stdout))
        => LET printed == IF ~DecidingExitedZero THEN <<>>
                          ELSE IF call.name = "get_prop" THEN strip(hist[Deciding].stdout)
                          ELSE hist[Deciding].stdout
           IN  /\ response.kind = "ret"
               /\ response.val =
                     <<TextContent(Str(
                         IF printed = <<>> THEN ErrorText
                         ELSE IF call.name = "get_prop"
                         THEN call.arguments["prop_name"].v \o <<" = ">> \o printed
                         ELSE printed))>>

\* an empty file was read with status 0 and the answer is the error text
C26_Witness ==
    /\ pc = "done"
    /\ Dispatched("read_file")
    /\ ExitedZero(1)
    /\ hist[1].stdout = <<>>
    /\ Returned(<<TextContent(Str(<<"Error: Failed to read file">>))>>)

\* ---------------------------------------------------------------------------------
\* Part 16: several requests at one server
\* ---------------------------------------------------------------------------------

\* the entry of the log is an invocation of verb on the fixed dump path of the device
Does(e, verb) ==
    /\ e.kind = "invoke"
    /\ Len(e.cmd) >= 2
    /\ e.cmd[Len(e.cmd)] = device_path_dump
    /\ e.cmd[Len(e.cmd) - 1] = <<verb>>

\* the handlers whose start the log holds
Begun == SelectSeq(log, LAMBDA e : e.kind = "begin")

\* C27: when several calls of call_tool are at the server, every invocation of one call
\* is over before an invocation of another starts. In the log of the server a handler
\* begins only first or right after another returned, an invocation starts only right
\* after its handler began or after the invocation before it was over, and a handler
\* returns only with no invocation under way; so the read of the dump path comes right
\* after the dump of the same call and the delete right after its read, and no delete
\* falls between a dump and its read.
C27_CallsNotInterleaved ==
    \A i \in 1..Len(log) :
        /\ log[i].kind = "begin" => (i = 1 \/ log[i - 1].kind = "end")
        /\ log[i].kind = "invoke" => (i > 1 /\ log[i - 1].kind \in {"begin", "over"})
        /\ log[i].kind = "over" => (i > 1 /\ log[i - 1].kind = "invoke")
        /\ log[i].kind = "end" => (i > 1 /\ log[i - 1].kind \in {"begin", "over"})
        /\ Does(log[i], "cat") =>
              (i > 3 /\ Does(log[i - 2], "dump") /\ log[i - 3].kind = "begin")
        /\ Does(log[i], "rm") => (i > 2 /\ Does(log[i - 2], "cat"))

\* a get_ui_hierarchy call that waited while another one dumped, read and deleted is
\* now reading the dump path
C27_Witness ==
    /\ pc = "waiting"
    /\ call.entry = "call_tool" /\ call.name = "get_ui_hierarchy"
    /\ Len(trace) = 2
    /\ Len(Begun) = 2
    /\ Len(log) = 12
    /\ Does(log[6], "rm")
    /\ Does(log[12], "cat")

\* ---------------------------------------------------------------------------------
\* Part 17: the operations of two invocations
\* ---------------------------------------------------------------------------------

\* the operations that make two invocations and answer with the second
TwoStep == {"toggle_airplane_mode", "double_tap"}

\* the command lines the call in progress is to issue, in order
TwoStepCommands ==
    LET a == call.arguments
    IN  IF call.name = "toggle_airplane_mode"
        THEN <<Words(<<"shell", "settings", "put", "global", "airplane_mode_on",
                       IF a["enable"] = Bool(TRUE) THEN "1" ELSE "0">>),
               Words(<<"shell", "am", "broadcast", "-a",
                       "android.intent.action.AIRPLANE_MODE">>)>>
        ELSE <<Words(<<"shell", "input", "tap">>) \o <<str(a["x"].v), str(a["y"].v)>>,
               Words(<<"shell", "input", "tap">>) \o <<str(a["x"].v), str(a["y"].v)>>>>

\* C28: toggle_airplane_mode issues the settings write and then the broadcast, and
\* double_tap the same tap twice: once the first invocation has exited, with status 0
\* or not, the call does not return before the second was issued, it issues no third,
\* and when the second has exited the call returns True if its status is 0 and False
\* if it is not (through call_tool: a text that ends with Success or with Failed),
\* whatever the status of the first.
C28_SecondDecides ==
    (call.entry \in {"ADBClient", "call_tool"} /\ call.name \in TwoStep /\ Len(trace) >= 1)
        => /\ Len(trace) <= 2
           /\ \A i \in 1..Len(trace) : adb_args(trace[i]) = TwoStepCommands[i]
           /\ (Len(hist) = 1 /\ hist[1].kind = "exit" /\ pc = "running")
                 => Step.kind = "invoke"
           /\ (pc = "done" /\ AllExited)
                 => /\ Len(trace) = 2
                    /\ Len(hist) = 2
                    /\ response.kind = "ret"
                    /\ IF call.entry = "ADBClient"
                       THEN response.val = Bool(hist[2].code = 0)
                       ELSE /\ Len(response.val) = 1
                            /\ LET text == response.val[1].text.v
                               IN  text[Len(text)] =
                                     IF hist[2].code = 0 THEN "Success" ELSE "Failed"

\* toggle_airplane_mode has returned True although its settings write exited with a
\* status other than 0: the broadcast exited with 0
C28_Witness ==
    /\ Method("toggle_airplane_mode")
    /\ Len(trace) = 2
    /\ ExitedNonZero(1)
    /\ Len(hist) = 2 /\ hist[2].kind = "exit" /\ hist[2].code = 0
    /\ Returned(Bool(TRUE))

\* ---------------------------------------------------------------------------------
\* Part 18: the brightness written
\* ---------------------------------------------------------------------------------

\* the greater and the smaller of two integers
Max(m, n) == IF m >= n THEN m ELSE n
Min(m, n) == IF m <= n THEN m ELSE n

\* the level the call in progress asks for
Requested == call.arguments["level"].v

\* C29: set_brightness, called directly or through call_tool, issues one invocation,
\* the write of the setting screen_brightness, and the value it writes is
\* max(0, min(255, level)) printed in decimal for the level requested, a value within
\* 0..255.
C29_BrightnessClamped ==
    (call.entry \in {"ADBClient", "call_tool"} /\ call.name = "set_brightness"
       /\ Len(trace) >= 1)
        => /\ Len(trace) = 1
           /\ Max(0, Min(255, Requested)) \in 0..255
           /\ adb_args(trace[1]) =
                 Words(<<"shell", "settings", "put", "system", "screen_brightness">>)
                 \o <<str(Max(0, Min(255, Requested)))>>
           /\ \E v \in 0..255 : trace[1][Len(trace[1])] = str(v)

\* set_brightness was asked for a level below 0, has written 0 and has returned True
C29_Witness ==
    /\ Method("set_brightness")
    /\ Requested < 0
    /\ Len(trace) = 1
    /\ trace[1][Len(trace[1])] = str(0)
    /\ Returned(Bool(TRUE))

====
